---- MODULE Spec2Model ----
(***************************************************************************)
(* Model of the data-migration engine of b2c-plugin-data-migrations:       *)
(* lib/migrations.ts (collectMigrations, migrateInstance), lib/state.ts    *)
(* (getInstanceState, updateInstanceMigrations) and lib/bootstrap.ts       *)
(* (isMigrationBootstrapRequired, bootstrapMigrations), and of its feature *)
(* side: lib/features.ts (deployFeature, removeFeature), lib/state.ts      *)
(* (getInstanceFeatureState, updateFeatureState), lib/bootstrap.ts         *)
(* (isFeatureBootstrapRequired, bootstrapFeatures) and the feature update  *)
(* and feature bootstrap commands.                                         *)
(*                                                                         *)
(* A string is a sequence of tokens (one-character strings, plus the file  *)
(* extensions and the reserved word "setup" as single tokens), so that the *)
(* join(',') / split(',') conversion of the applied list is computed and   *)
(* not assumed.                                                            *)
(***************************************************************************)
EXTENDS Integers, Sequences, FiniteSets, TLC

\* ------------------------------------------------------------------ bounds

\* Number of invocations of migrateInstance, one after the other.
MaxRuns == 2
\* Largest number of change-units in the migrations directory.
MaxCatalog == 2
\* Largest number of ids in the remote applied list before the first run.
MaxApplied == 1
\* Largest number of writes to the applied list by another process.
MaxExternal == 1
\* Number of feature operations (deploy, update, remove), one after the
\* other.
MaxOperations == 1
\* Number of runs of the feature bootstrap command, one after the other.
MaxBootstraps == 2
\* Number of entries of a directory that collectMigrations scans on its own.
MaxEntries == 3

\* ------------------------------------------------------- program constants

B2C_TOOLKIT_DATA_VERSION == 7

\* version: number | null -- the null of ToolkitInstanceState.version
NoVersion == -1
\* `clientId in clients` is false
NoEntry == -1

\* ----------------------------------------------------------------- strings

COMMA == ","
EXT_JS == ".js"
EXT_TXT == ".txt"

\* Collation rank of a token under localeCompare(_, 'en'): punctuation
\* sorts before letters, letters alphabetically.
Rank(t) ==
  CASE t = ","     -> 1
    [] t = ".js"   -> 2
    [] t = ".txt"  -> 3
    [] t = "a"     -> 4
    [] t = "b"     -> 5
    [] t = "c"     -> 6
    [] t = "d"     -> 7
    [] t = "setup" -> 8
    [] OTHER       -> 9

Min(x, y) == IF x < y THEN x ELSE y

\* a.localeCompare(b, 'en', {numeric: false}) < 0
LocaleLess(x, y) ==
  \E k \in 1..(Min(Len(x), Len(y)) + 1) :
    /\ \A j \in 1..(k - 1) : x[j] = y[j]
    /\ \/ k > Len(x) /\ k <= Len(y)
       \/ k <= Len(x) /\ k <= Len(y) /\ Rank(x[k]) < Rank(y[k])

\* A sort with the comparator reversed: the names in descending order.
RECURSIVE SortNamesDescending(_)
SortNamesDescending(S) ==
  IF S = {} THEN <<>>
  ELSE LET m == CHOOSE x \in S : \A y \in S \ {x} : LocaleLess(y, x)
       IN  <<m>> \o SortNamesDescending(S \ {m})

\* Array.prototype.sort with the localeCompare comparator, on the names of a
\* set of entries.
RECURSIVE SortNames(_)
SortNames(S) ==
  IF S = {} THEN <<>>
  ELSE LET m == CHOOSE x \in S : \A y \in S \ {x} : LocaleLess(x, y)
       IN  <<m>> \o SortNames(S \ {m})

\* path.extname(name)
ExtName(name) ==
  IF Len(name) > 1 /\ name[Len(name)] \in {EXT_JS, EXT_TXT}
  THEN name[Len(name)] ELSE ""

\* name.match(re) for a pattern that is a literal token
Matches(name, re) == \E i \in 1..Len(name) : name[i] = re

SETUP_JS == <<"setup", ".js">>

\* A scan that keeps the lifecycle module among the units.
CollectWithSetup(entries, exclude) ==
  SortNames({ d.name : d \in
    { e \in entries :
        /\ (e.isDirectory \/ ExtName(e.name) = EXT_JS)
        /\ \A re \in exclude : ~Matches(e.name, re) } })

\* collectMigrations(dir, exclude): entries are [name, isDirectory]
CollectMigrations(entries, exclude) ==
  SortNames({ d.name : d \in
    { e \in entries :
        /\ (e.isDirectory \/ ExtName(e.name) = EXT_JS)
        /\ \A re \in exclude : ~Matches(e.name, re)
        /\ e.name # SETUP_JS } })

\* String.prototype.split(',')
RECURSIVE Split(_)
Split(s) ==
  IF \A i \in 1..Len(s) : s[i] # COMMA THEN <<s>>
  ELSE LET i == CHOOSE k \in 1..Len(s) :
                  s[k] = COMMA /\ \A j \in 1..(k - 1) : s[j] # COMMA
       IN  <<SubSeq(s, 1, i - 1)>> \o Split(SubSeq(s, i + 1, Len(s)))

\* Array.prototype.join(',')
RECURSIVE Join(_)
Join(list) ==
  IF list = <<>> THEN <<>>
  ELSE IF Len(list) = 1 THEN list[1]
  ELSE list[1] \o <<COMMA>> \o Join(Tail(list))

Range(s) == { s[i] : i \in 1..Len(s) }

\* Array.from(new Set(list)): first occurrences, in order
RECURSIVE Dedup(_)
Dedup(list) ==
  IF list = <<>> THEN <<>>
  ELSE LET front == Dedup(SubSeq(list, 1, Len(list) - 1))
           x == list[Len(list)]
       IN  IF x \in Range(front) THEN front ELSE Append(front, x)

\* list.filter(m => !other.includes(m))
RECURSIVE FilterNotIn(_, _)
FilterNotIn(list, other) ==
  IF list = <<>> THEN <<>>
  ELSE IF Head(list) \in Range(other) THEN FilterNotIn(Tail(list), other)
  ELSE <<Head(list)>> \o FilterNotIn(Tail(list), other)

\* ------------------------------------------------------------- state store

ClientIds == {"c1", "c2"}

\* getInstanceState returning null (403 or 404 on the preference group)
NullState ==
  [present |-> FALSE, version |-> NoVersion, migrations |-> <<>>,
   clients |-> [c \in ClientIds |-> NoEntry], vars |-> 0]

\* The answers of the remote to the GET and the PATCH of the preference
\* group, held in rem.access: "ok"; "readonly" (the GET is answered, the
\* PATCH is rejected with 403); "forbidden" (403) and "notfound" (404) for
\* both; or any other failure, held as the message of its fault, with
\* NoMessage for a failure that reports none.
NoMessage == "no message"

Faults == {"internal error", NoMessage}

Readable(rem) == rem.access \in {"ok", "readonly"}

\* A read that takes every failure for an absent preference group.
AbsentOnAnyFailure(rem) == ~Readable(rem)

\* if (response.status === 403) return null; else if (404) return null
Absent(rem) == rem.access \in {"forbidden", "notfound"}

\* throw new Error(error?.fault?.message ?? 'Failed to read instance state')
ReadError(rem) == ~Readable(rem) /\ ~Absent(rem)

ReadMessage(rem) ==
  IF rem.access = NoMessage THEN "Failed to read instance state"
  ELSE rem.access

\* getInstanceState(instance): the preference group as the caller sees it,
\* when the read does not throw.
GetInstanceState(rem) ==
  IF ~Readable(rem) THEN NullState
  ELSE [present |-> TRUE,
        version |-> rem.version,
        migrations |-> IF rem.migrations # <<>> THEN Split(rem.migrations)
                       ELSE <<>>,
        clients |-> rem.clients,
        vars |-> rem.vars]

\* updateInstanceMigrations(instance, migrations): the PATCH body
UpdateInstanceMigrations(rem, migrations) ==
  [rem EXCEPT !.migrations = Join(migrations)]

\* A registry written with the entry of the bootstrapping identity alone.
StampAlone(clients, clientId, version) ==
  [c \in DOMAIN clients |-> IF c = clientId THEN version ELSE NoEntry]

\* clients[clientId] = {...clients[clientId], version}: the entry of the
\* identity is set in the registry that was read, the other entries stay
Stamp(clients, clientId, version) == [clients EXCEPT ![clientId] = version]

\* A test that looks at the entry of the identity only, not at the version
\* of the instance.
RequiredByRegistryOnly(clientId, st) ==
  \/ ~st.present
  \/ st.clients[clientId] < B2C_TOOLKIT_DATA_VERSION

\* A test that asks for a bootstrap whenever the version is not the expected
\* one, a newer version included.
RequiredUnlessCurrent(clientId, st) ==
  \/ ~st.present
  \/ st.version # B2C_TOOLKIT_DATA_VERSION
  \/ st.clients[clientId] # B2C_TOOLKIT_DATA_VERSION

\* isMigrationBootstrapRequired(clientId, instanceState)
IsMigrationBootstrapRequired(clientId, st) ==
  \/ ~st.present
  \/ st.version = NoVersion \/ st.version = 0
  \/ st.version < B2C_TOOLKIT_DATA_VERSION
  \/ st.clients[clientId] = NoEntry
  \/ st.clients[clientId] < B2C_TOOLKIT_DATA_VERSION

B2C_TOOLS_FEATURES_VERSION == 3

\* isFeatureBootstrapRequired(clientId, instanceState)
IsFeatureBootstrapRequired(clientId, st) ==
  \/ ~st.present
  \/ st.b2cToolsFeaturesVersion = NoVersion
  \/ st.b2cToolsFeaturesVersion = 0
  \/ st.b2cToolsFeaturesVersion < B2C_TOOLS_FEATURES_VERSION
  \/ st.b2cToolsFeaturesBootstrappedClientIDs[clientId] = NoEntry
  \/ st.b2cToolsFeaturesBootstrappedClientIDs[clientId]
       < B2C_TOOLS_FEATURES_VERSION

\* ------------------------------------------------------------------- state

Runs == {1, 2}

HookNames ==
  {"init", "shouldBootstrap", "onBootstrap", "beforeAll", "beforeEach",
   "afterEach", "afterAll", "onFailure"}

NoUnit == <<>>

VARIABLES
  dir,      \* the migrations directory: a set of [name, isDirectory]
  remote,   \* the preference group b2cToolkit of the instance
  run,      \* per invocation of migrateInstance: its locals and position
  started,  \* number of invocations started so far
  last,     \* what is remembered of the invocation that ended last
  external, \* the writes to the applied list by another process, in order
  call,     \* the application of a function: its arguments and its result
  features, \* the features directory: the feature definitions of the project
  featureRemote,  \* the features side of the instance: the preferences of
                  \* the features and the B2CToolsFeature custom objects
  feat      \* the feature operation under way: its locals and position

\* what the feature operations work on
featureSide == <<call, features, featureRemote, feat>>

vars == <<dir, remote, run, started, last, external, call, features,
          featureRemote, feat>>

\* migrateInstance called for the migrations of the project, not of a feature
NoFeature == "none"

\* no instance looked at yet
NoRemote ==
  [access |-> "notfound", version |-> NoVersion,
   clients |-> [c \in ClientIds |-> NoEntry], migrations |-> <<>>,
   vars |-> 0]

\* the arguments of a hook that was not called
NoCall == [called |-> FALSE, migrationsToApply |-> <<>>, apply |-> FALSE,
           dryRun |-> FALSE]

IdleRun ==
  [pc |-> "idle", clientId |-> "c1", apply |-> TRUE, dryRun |-> FALSE,
   forceBootstrap |-> FALSE, allowBootstrap |-> TRUE, hooks |-> {},
   projectMigrations |-> <<>>, instanceState |-> NullState,
   instanceMigrations |-> <<>>, migrationsToApply |-> <<>>, idx |-> 0,
   script |-> "none", migrationsRan |-> <<>>, error |-> "none",
   trace |-> <<>>, remote0 |-> <<>>, planned |-> <<>>,
   beforeAll |-> NoCall, start |-> NoRemote, read0 |-> NullState,
   shouldBootstrap |-> "none", feature |-> NoFeature]

NoLast ==
  [outcome |-> "none", apply |-> FALSE, dryRun |-> FALSE, committed |-> {},
   pending |-> {}]

Event(e, u) == [ev |-> e, unit |-> u]

\* the trace extended by the call of a hook, when the bundle has it
Hook(r, h, u) ==
  IF h \in run[r].hooks THEN Append(run[r].trace, Event(h, u))
  ELSE run[r].trace

Set(r, rec) == run' = [run EXCEPT ![r] = rec]

Fail(r, err, tr) ==
  Set(r, [run[r] EXCEPT !.pc = "failed", !.error = err, !.trace = tr])

\* ------------------------------------------------------------ feature side

FeatureNames == {"f1", "f2"}

\* the order in which readdir lists the feature directories and the custom
\* object search returns its hits
NameOrder == <<"f1", "f2">>

RECURSIVE InOrderFrom(_, _)
InOrderFrom(names, order) ==
  IF order = <<>> THEN <<>>
  ELSE IF Head(order) \in names
  THEN <<Head(order)>> \o InOrderFrom(names, Tail(order))
  ELSE InOrderFrom(names, Tail(order))

\* the names of a set of features or hits, as a list
InOrder(names) == InOrderFrom(names, NameOrder)

Keys == {"x", "y"}

REDACTED == "*****"
Undefined == "undefined"

\* {}
EmptyVars == [k \in {} |-> Undefined]

\* {...a, ...b}
Spread(a, b) ==
  [k \in DOMAIN a \cup DOMAIN b |-> IF k \in DOMAIN b THEN b[k] ELSE a[k]]

\* JSON.parse(JSON.stringify(m)): a key whose value is undefined is left out
Stringify(m) == [k \in { j \in DOMAIN m : m[j] # Undefined } |-> m[k]]

\* no custom object of this key
NoObject ==
  [exists |-> FALSE, c_vars |-> EmptyVars, c_secretVars |-> EmptyVars]

\* getInstanceFeatureState returning null
FeatureNullState ==
  [present |-> FALSE, b2cToolsFeaturesVersion |-> NoVersion,
   b2cToolsFeaturesBootstrappedClientIDs |-> [c \in ClientIds |-> NoEntry],
   features |-> {}]

\* no function applied
NoApplication == [pc |-> "none"]

\* no features directory looked at, no feature operation under way
NoFeatureRemote ==
  [access |-> "notfound", b2cToolsFeaturesVersion |-> NoVersion,
   b2cToolsFeaturesBootstrappedClientIDs |-> [c \in ClientIds |-> NoEntry],
   objects |-> [n \in FeatureNames |-> NoObject]]

FeatureHooks == {"beforeDeploy", "questions", "finish", "remove"}

\* no feature operation has ended yet
NoPrevious ==
  [op |-> "none", outcome |-> "none", clientId |-> "c1",
   after |-> NoFeatureRemote]

\* no prompt has taken place
NoPrompt == [asked |-> FALSE, available |-> FALSE, answers |-> EmptyVars]

IdleFeat ==
  [pc |-> "idle", op |-> "none", clientId |-> "c1", featureName |-> NoFeature,
   vars |-> EmptyVars, saveSecrets |-> TRUE, queue |-> <<>>,
   instanceState |-> FeatureNullState, featureVars |-> EmptyVars,
   questions |-> FALSE, prompt |-> NoPrompt, error |-> "none",
   trace |-> <<>>,
   start |-> NoFeatureRemote, count |-> 0, previous |-> NoPrevious]

FeatureSideIdle ==
  /\ call = NoApplication
  /\ features = {}
  /\ featureRemote = NoFeatureRemote
  /\ feat = IdleFeat

\* ---------------------------------------------------------- migrateInstance

\* The call of migrateInstance(instance, clientId, dir, options) with the
\* lifecycle module of setup.js exporting the hooks hk.
StartRun(r, cid, ap, dr, fb, ab, hk) ==
  /\ run[r].pc = "idle"
  /\ started < MaxRuns
  /\ started' = started + 1
  /\ Set(r, [IdleRun EXCEPT !.pc = "init", !.clientId = cid, !.apply = ap,
                            !.dryRun = dr, !.forceBootstrap = fb,
                            !.allowBootstrap = ab, !.hooks = hk,
                            !.remote0 = remote.migrations,
                            !.start = remote])
  /\ UNCHANGED <<dir, remote, last, external, featureSide>>

\* The dir argument: the migrations directory of the project, or the
\* migrations directory of the feature that deployFeature is deploying.
MigrationsDir(r) ==
  IF run[r].feature = NoFeature THEN dir
  ELSE (CHOOSE f \in features : f.featureName = run[r].feature).migrations

\* init hook, collectMigrations, getInstanceState
ReadState(r) ==
  /\ run[r].pc = "init"
  /\ IF ReadError(remote)
     THEN Fail(r, ReadMessage(remote), Hook(r, "init", NoUnit))
     ELSE Set(r, [run[r] EXCEPT
            !.pc = "check",
            !.trace = Hook(r, "init", NoUnit),
            !.projectMigrations = CollectMigrations(MigrationsDir(r), {}),
            !.instanceState = GetInstanceState(remote),
            !.read0 = GetInstanceState(remote)])
  /\ UNCHANGED <<dir, remote, started, last, external, featureSide>>

\* A check that lets a required bootstrap go ahead whatever the caller allows.
NeverRefused(bootstrapRequired, allowBootstrap) == FALSE

\* if (bootstrapRequired && !allowBootstrap) throw
BootstrapRefused(bootstrapRequired, allowBootstrap) ==
  bootstrapRequired /\ ~allowBootstrap

\* A check that lets an instance of a newer version through.
SkewUnchecked(st) == FALSE

\* instanceState && instanceState.version &&
\* instanceState.version > B2C_TOOLKIT_DATA_VERSION
VersionSkew(st) ==
  /\ st.present /\ st.version # NoVersion /\ st.version # 0
  /\ st.version > B2C_TOOLKIT_DATA_VERSION

\* A catch that takes a hook that throws for a hook that declines.
ThrowDeclines(result) == result = "true"

\* if (result === true) bootstrapRequired = true, and the same in the catch
ShouldBootstrapAsks(result) == result \in {"true", "throw"}

\* The bootstrap decision. result is what the shouldBootstrap hook does when
\* it is called: it returns true or false, or throws.
StateCheck(r) ==
  /\ run[r].pc = "check"
  /\ LET st == run[r].instanceState
         required == IsMigrationBootstrapRequired(run[r].clientId, st)
         asks == "shouldBootstrap" \in run[r].hooks /\ ~required
     IN  \E result \in IF asks THEN {"true", "false", "throw"} ELSE {"none"} :
           LET bootstrapRequired == required \/ ShouldBootstrapAsks(result)
               tr == IF asks THEN Hook(r, "shouldBootstrap", NoUnit)
                     ELSE run[r].trace
               rec == [run[r] EXCEPT !.shouldBootstrap = result, !.trace = tr]
           IN  IF BootstrapRefused(bootstrapRequired, run[r].allowBootstrap)
               THEN Set(r, [rec EXCEPT !.pc = "failed",
                                       !.error = "bootstrap required"])
               ELSE IF run[r].forceBootstrap \/ bootstrapRequired
               THEN Set(r, [rec EXCEPT !.pc = "boot_import",
                       !.trace = Append(tr, Event("bootstrap", NoUnit))])
               ELSE IF VersionSkew(st)
               THEN Set(r, [rec EXCEPT !.pc = "failed",
                                       !.error = "version skew"])
               ELSE IF ~st.present
               THEN Set(r, [rec EXCEPT !.pc = "failed",
                                       !.error = "no instance state"])
               ELSE Set(r, [rec EXCEPT !.pc = "plan"])
  /\ UNCHANGED <<dir, remote, started, last, external, featureSide>>

\* An archive whose preferences.xml also resets the applied list.
ImportResetsApplied(rem) ==
  [rem EXCEPT !.version = 0, !.migrations = <<>>,
              !.access = IF @ = "notfound" THEN "ok" ELSE @]

\* An archive without the metadata of the attribute group: a preference
\* group that was not found is still not found after the import.
ImportWithoutGroup(rem) == [rem EXCEPT !.version = 0]

\* The archive that bootstrapMigrations imports: preferences.xml sets
\* b2cToolkitDataVersion to 0 and the metadata declares the attribute group,
\* so a preference group that was not found exists afterwards.
ImportToolkitArchive(rem) ==
  [rem EXCEPT !.version = 0,
              !.access = IF @ = "notfound" THEN "ok" ELSE @]

\* bootstrapMigrations: the archive import
BootstrapImport(r) ==
  /\ run[r].pc = "boot_import"
  /\ \E ok \in BOOLEAN :
       IF ok
       THEN /\ remote' = ImportToolkitArchive(remote)
            /\ Set(r, [run[r] EXCEPT !.pc = "boot_read"])
       ELSE /\ Fail(r, "import failed", run[r].trace)
            /\ UNCHANGED remote
  /\ UNCHANGED <<dir, started, last, external, featureSide>>

\* bootstrapMigrations: read the fresh state, record the client id in it and
\* call onBootstrap.
BootstrapRead(r) ==
  /\ run[r].pc = "boot_read"
  /\ LET st == GetInstanceState(remote)
         stamped == [st EXCEPT
           !.clients = Stamp(@, run[r].clientId, B2C_TOOLKIT_DATA_VERSION)]
     IN  IF ReadError(remote)
         THEN Fail(r, ReadMessage(remote), run[r].trace)
         ELSE IF ~st.present
         THEN Fail(r, "no instance state after import", run[r].trace)
         ELSE \E thrown \in IF "onBootstrap" \in run[r].hooks THEN BOOLEAN
                            ELSE {FALSE} :
                IF thrown
                THEN Fail(r, "onBootstrap", Hook(r, "onBootstrap", NoUnit))
                ELSE Set(r, [run[r] EXCEPT
                       !.pc = "boot_write",
                       !.trace = Hook(r, "onBootstrap", NoUnit),
                       !.instanceState = stamped])
  /\ UNCHANGED <<dir, remote, started, last, external, featureSide>>

\* bootstrapMigrations: the PATCH of version, client ids and vars. The
\* answer of the PATCH is not looked at: a rejected PATCH changes nothing
\* and bootstrapMigrations returns all the same.
BootstrapWrite(r) ==
  /\ run[r].pc = "boot_write"
  /\ remote' = IF remote.access = "ok"
               THEN [remote EXCEPT
                       !.version = B2C_TOOLKIT_DATA_VERSION,
                       !.clients = run[r].instanceState.clients,
                       !.vars = run[r].instanceState.vars]
               ELSE remote
  /\ Set(r, [run[r] EXCEPT !.pc = "boot_reread"])
  /\ UNCHANGED <<dir, started, last, external, featureSide>>

\* instanceState = await getInstanceState(instance) after the bootstrap
BootstrapReread(r) ==
  /\ run[r].pc = "boot_reread"
  /\ LET st == GetInstanceState(remote)
     IN  IF ReadError(remote)
         THEN Fail(r, ReadMessage(remote), run[r].trace)
         ELSE IF ~st.present
         THEN Fail(r, "no instance state", run[r].trace)
         ELSE Set(r, [run[r] EXCEPT !.pc = "plan", !.instanceState = st])
  /\ UNCHANGED <<dir, remote, started, last, external, featureSide>>

\* instanceMigrations, migrationsToApply and the beforeAll hook
Planning(r) ==
  /\ run[r].pc = "plan"
  /\ LET instanceMigrations == run[r].instanceState.migrations
         migrationsToApply ==
           FilterNotIn(run[r].projectMigrations, instanceMigrations)
     IN  Set(r, [run[r] EXCEPT
           !.pc = IF migrationsToApply = <<>> THEN "after_all" ELSE "unit",
           !.idx = 1,
           !.instanceMigrations = instanceMigrations,
           !.planned = instanceMigrations,
           !.migrationsToApply = migrationsToApply,
           !.beforeAll =
              IF "beforeAll" \in run[r].hooks
              THEN [called |-> TRUE, migrationsToApply |-> migrationsToApply,
                    apply |-> run[r].apply, dryRun |-> run[r].dryRun]
              ELSE NoCall,
           !.trace = Hook(r, "beforeAll", NoUnit)])
  /\ UNCHANGED <<dir, remote, started, last, external, featureSide>>

Migration(r) == run[r].migrationsToApply[run[r].idx]

\* continue / the end of one iteration of the for loop
NextUnit(r) ==
  IF run[r].idx < Len(run[r].migrationsToApply)
  THEN [pc |-> "unit", idx |-> run[r].idx + 1]
  ELSE [pc |-> "after_all", idx |-> run[r].idx]

\* A loop that goes on to afterEach without the commit for a unit that
\* beforeEach has vetoed.
VetoedNotCommitted(runMigration) ==
  IF runMigration THEN "exec" ELSE "after_each"

\* A loop that does not look at dryRun.
DryRunIgnored(dryRun) == FALSE

\* if (dryRun) { continue; }
DryRunContinue(dryRun) == dryRun

\* if (runMigration !== false) { try ... } else { skip }: where the loop body
\* goes after beforeEach
AfterBeforeEach(runMigration) == IF runMigration THEN "exec" ELSE "commit"

\* The head of the loop body: stat, notes (the script is loaded to read its
\* notes), the dry-run skip and the beforeEach hook. exports is what the
\* file of a script unit exports: a function, something else, or nothing
\* because loading it throws.
UnitBegin(r) ==
  /\ run[r].pc = "unit"
  /\ LET migration == Migration(r)
         isDirectory == \E e \in MigrationsDir(r) :
                          e.name = migration /\ e.isDirectory
     IN  \E exports \in IF isDirectory THEN {"directory"}
                        ELSE {"function", "other", "unloadable"} :
         \E runMigration \in IF "beforeEach" \in run[r].hooks THEN BOOLEAN
                             ELSE {TRUE} :
           IF exports = "unloadable"
           THEN Fail(r, "cannot load script", run[r].trace)
           ELSE IF DryRunContinue(run[r].dryRun)
           THEN Set(r, [run[r] EXCEPT !.pc = NextUnit(r).pc,
                                      !.idx = NextUnit(r).idx])
           ELSE Set(r, [run[r] EXCEPT
                  !.pc = AfterBeforeEach(runMigration),
                  !.script = exports,
                  !.trace = IF runMigration
                            THEN Hook(r, "beforeEach", migration)
                            ELSE Append(Hook(r, "beforeEach", migration),
                                        Event("skip", migration))])
  /\ UNCHANGED <<dir, remote, started, last, external, featureSide>>

\* The try block up to the call: siteArchiveImport for a directory, the
\* exported function for a script; a script that exports no function throws
\* before anything is called.
ExecStart(r) ==
  /\ run[r].pc = "exec"
  /\ IF run[r].script = "other"
     THEN Set(r, [run[r] EXCEPT
            !.pc = "caught", !.error = "not a function",
            !.trace = Append(@, Event("invalid", Migration(r)))])
     ELSE Set(r, [run[r] EXCEPT
            !.pc = "running",
            !.trace = Append(@, Event("exec", Migration(r)))])
  /\ UNCHANGED <<dir, remote, started, last, external, featureSide>>

\* The awaited import or script call returns or throws.
ExecEnd(r) ==
  /\ run[r].pc = "running"
  /\ \E ok \in BOOLEAN :
       IF ok
       THEN Set(r, [run[r] EXCEPT !.pc = "commit",
                      !.trace = Append(@, Event("executed", Migration(r)))])
       ELSE Set(r, [run[r] EXCEPT
              !.pc = "caught", !.error = "unit threw",
              !.trace = Append(@, Event("threw", Migration(r)))])
  /\ UNCHANGED <<dir, remote, started, last, external, featureSide>>

\* A catch block that never looks for the hook.
OnFailureIgnored(hooks) == FALSE

\* typeof lifeCycleModule.onFailure === 'function'
HasOnFailure(hooks) == "onFailure" \in hooks

\* The catch block: onFailure when the bundle has it, else rethrow.
Caught(r) ==
  /\ run[r].pc = "caught"
  /\ IF HasOnFailure(run[r].hooks)
     THEN \E thrown \in BOOLEAN :
            IF thrown
            THEN Fail(r, "onFailure threw",
                      Hook(r, "onFailure", Migration(r)))
            ELSE Set(r, [run[r] EXCEPT !.pc = "commit", !.error = "none",
                           !.trace = Hook(r, "onFailure", Migration(r))])
     ELSE Fail(r, run[r].error, run[r].trace)
  /\ UNCHANGED <<dir, remote, started, last, external, featureSide>>

\* A merge that concatenates the two lists and leaves the repetitions in.
MergeKeepsDuplicates(currentInstanceMigrations, instanceMigrations) ==
  currentInstanceMigrations \o instanceMigrations

\* A commit that writes the list the run holds in memory, without the merge.
WithoutMerge(currentInstanceMigrations, instanceMigrations) ==
  instanceMigrations

\* Array.from(new Set(currentInstanceMigrations.concat(instanceMigrations)))
Merge(currentInstanceMigrations, instanceMigrations) ==
  Dedup(currentInstanceMigrations \o instanceMigrations)

\* A commit that re-reads and writes whatever apply is.
CommitAlways(apply) == TRUE

\* if (apply) { re-read, merge, updateInstanceMigrations }
CommitApplies(apply) == apply

\* instanceMigrations.push(migration) and, when apply, the re-read of the
\* instance state and the merge.
CommitRead(r) ==
  /\ run[r].pc = "commit"
  /\ LET pushed == Append(run[r].instanceMigrations, Migration(r))
         st == GetInstanceState(remote)
     IN  IF CommitApplies(run[r].apply) /\ ReadError(remote)
         THEN Fail(r, ReadMessage(remote), run[r].trace)
         ELSE IF CommitApplies(run[r].apply)
         THEN Set(r, [run[r] EXCEPT
                !.pc = "commit_write",
                !.instanceState = st,
                !.instanceMigrations =
                   IF st.present THEN Merge(st.migrations, pushed)
                   ELSE pushed])
         ELSE Set(r, [run[r] EXCEPT !.pc = "after_each",
                                    !.instanceMigrations = pushed])
  /\ UNCHANGED <<dir, remote, started, last, external, featureSide>>

\* await updateInstanceMigrations(instance, instanceMigrations): the PATCH is
\* answered with an error (403, 404) when the preference group is not
\* accessible, and updateInstanceMigrations throws.
CommitWrite(r) ==
  /\ run[r].pc = "commit_write"
  /\ IF remote.access = "ok"
     THEN /\ remote' = UpdateInstanceMigrations(remote,
                                                run[r].instanceMigrations)
          /\ Set(r, [run[r] EXCEPT
               !.pc = "after_each",
               !.trace = Append(@, Event("commit", Migration(r)))])
     ELSE /\ Fail(r, "update failed", run[r].trace)
          /\ UNCHANGED remote
  /\ UNCHANGED <<dir, started, last, external, featureSide>>

\* afterEach hook, migrationsRan.push(migration)
AfterEach(r) ==
  /\ run[r].pc = "after_each"
  /\ Set(r, [run[r] EXCEPT
       !.pc = NextUnit(r).pc,
       !.idx = NextUnit(r).idx,
       !.script = "none",
       !.migrationsRan = Append(@, Migration(r)),
       !.trace = Hook(r, "afterEach", Migration(r))])
  /\ UNCHANGED <<dir, remote, started, last, external, featureSide>>

\* An end of the run that calls afterAll in a dry run too.
AfterAllAlways(dryRun) == TRUE

\* if (!dryRun && typeof lifeCycleModule.afterAll === 'function')
AfterAllCalled(dryRun) == ~dryRun

\* afterAll hook, unless this is a dry run
AfterAll(r) ==
  /\ run[r].pc = "after_all"
  /\ Set(r, [run[r] EXCEPT
       !.pc = "log",
       !.trace = IF AfterAllCalled(run[r].dryRun)
                 THEN Hook(r, "afterAll", NoUnit) ELSE @])
  /\ UNCHANGED <<dir, remote, started, last, external, featureSide>>

\* A log write whose failure is thrown to the caller.
RethrowLogFailure(ok) == IF ok THEN "done" ELSE "failed"

\* try { await instance.webdav.put(...) } catch { }: where the run is after
\* the put has succeeded (ok) or thrown
CatchLogFailure(ok) == "done"

\* The log file is put on the instance; a failure to do so is ignored.
WriteLog(r) ==
  /\ run[r].pc = "log"
  /\ \E ok \in BOOLEAN :
       Set(r, [run[r] EXCEPT
         !.pc = CatchLogFailure(ok),
         !.trace = IF ok THEN Append(@, Event("log", NoUnit)) ELSE @])
  /\ UNCHANGED <<dir, remote, started, last, external, featureSide>>

\* ------------------------------------------------ the end of an invocation

Units(r, e) ==
  { run[r].trace[i].unit : i \in { j \in 1..Len(run[r].trace) :
                                     run[r].trace[j].ev = e } }

Summary(r, outcome) ==
  [outcome |-> outcome, apply |-> run[r].apply, dryRun |-> run[r].dryRun,
   committed |-> Units(r, "commit"),
   pending |-> Range(run[r].migrationsToApply)]

\* migrateInstance has returned or thrown.
Return(r) ==
  /\ run[r].pc \in {"done", "failed"}
  /\ last' = Summary(r, run[r].pc)
  /\ Set(r, IdleRun)
  /\ UNCHANGED <<dir, remote, started, external, featureSide>>

\* The host process is killed while migrateInstance is running.
Terminate(r) ==
  /\ run[r].pc \notin {"idle", "done", "failed"}
  /\ last' = Summary(r, "terminated")
  /\ Set(r, IdleRun)
  /\ UNCHANGED <<dir, remote, started, external, featureSide>>

\* The unit whose body is being executed at the moment, if any.
Executing ==
  IF \E r \in Runs : run[r].pc = "running"
  THEN Migration(CHOOSE r \in Runs : run[r].pc = "running")
  ELSE NoUnit

\* Another process PATCHes the applied list: it read the list and writes it
\* back with one more id.
ExternalWrite(name) ==
  /\ Len(external) < MaxExternal
  /\ remote.access = "ok"
  /\ LET current == IF remote.migrations # <<>> THEN Split(remote.migrations)
                    ELSE <<>>
     IN  /\ name \notin Range(current)
         /\ remote' = UpdateInstanceMigrations(remote, Append(current, name))
  /\ external' = Append(external, [name |-> name, during |-> Executing])
  /\ UNCHANGED <<dir, run, started, last, featureSide>>

Step(r) ==
  \/ ReadState(r) \/ StateCheck(r)
  \/ BootstrapImport(r) \/ BootstrapRead(r) \/ BootstrapWrite(r)
  \/ BootstrapReread(r)
  \/ Planning(r) \/ UnitBegin(r) \/ ExecStart(r) \/ ExecEnd(r) \/ Caught(r)
  \/ CommitRead(r) \/ CommitWrite(r) \/ AfterEach(r) \/ AfterAll(r)
  \/ WriteLog(r) \/ Return(r)

\* ------------------------------------------------------ the feature store

\* featureStateFromCustomObject(obj)
FeatureStateFromCustomObject(name, obj) ==
  [featureName |-> name, vars |-> Spread(obj.c_vars, obj.c_secretVars)]

\* getInstanceFeatureState(instance): null when the preferences or the search
\* of the custom objects answer 403 or 404, else the version, the registry
\* and one feature state per hit.
GetInstanceFeatureState(frem) ==
  IF frem.access # "ok" THEN FeatureNullState
  ELSE [present |-> TRUE,
        b2cToolsFeaturesVersion |-> frem.b2cToolsFeaturesVersion,
        b2cToolsFeaturesBootstrappedClientIDs |->
          frem.b2cToolsFeaturesBootstrappedClientIDs,
        features |->
          { FeatureStateFromCustomObject(n, frem.objects[n]) :
              n \in { m \in FeatureNames : frem.objects[m].exists } }]

\* Plain variables written as they come, the secret ones included.
SecretsInPlain(featureVars, secretVars, saveSecrets) == featureVars

\* updateFeatureState: the plain variables that are written
TargetVars(featureVars, secretVars, saveSecrets) ==
  LET secret == { k \in secretVars \cap DOMAIN featureVars :
                    featureVars[k] # Undefined }
  IN  IF saveSecrets
      THEN [k \in DOMAIN featureVars |->
              IF k \in secret THEN REDACTED ELSE featureVars[k]]
      ELSE [k \in DOMAIN featureVars \ secret |-> featureVars[k]]

\* updateFeatureState: the secret variables that are written
TargetSecretVars(featureVars, secretVars, saveSecrets) ==
  IF saveSecrets
  THEN [k \in secretVars |-> IF k \in DOMAIN featureVars THEN featureVars[k]
                             ELSE Undefined]
  ELSE EmptyVars

\* updateFeatureState(instance, featureName, vars, secretVars, saveSecrets):
\* the custom object is patched when the GET finds it and put otherwise; the
\* answer of neither request is looked at.
UpdateFeatureState(frem, featureName, featureVars, secretVars, saveSecrets) ==
  IF frem.access # "ok" THEN frem
  ELSE [frem EXCEPT !.objects[featureName] =
          [exists |-> TRUE,
           c_vars |->
             Stringify(TargetVars(featureVars, secretVars, saveSecrets)),
           c_secretVars |->
             Stringify(TargetSecretVars(featureVars, secretVars, saveSecrets))]]

\* ------------------------------------------------------------ deployFeature

\* what the migration engine works on
migrationSide == <<dir, remote, run, started, last, external>>

FeatureEvent(e, name) == [ev |-> e, feature |-> name]

\* features.find((f) => f.featureName === featureName)
Find(name) == { f \in features : f.featureName = name }

Feature == CHOOSE f \in features : f.featureName = feat.featureName

\* the trace extended by the call of a hook of the feature f, when it has it
FeatureHook(f, h) ==
  IF h \in f.hooks THEN Append(feat.trace, FeatureEvent(h, f.featureName))
  ELSE feat.trace

FeatFail(err, tr) ==
  feat' = [feat EXCEPT !.pc = "failed", !.error = err, !.trace = tr]

\* The call of deployFeature(instance, clientId, featureName, options).
StartDeploy(cid, name, callerVars, saveSecrets) ==
  /\ feat.pc = "idle"
  /\ feat.count < MaxOperations
  /\ feat' = [IdleFeat EXCEPT
       !.pc = "deploy", !.op = "deploy", !.clientId = cid,
       !.featureName = name, !.vars = callerVars,
       !.saveSecrets = saveSecrets, !.start = featureRemote,
       !.count = feat.count + 1]
  /\ UNCHANGED <<migrationSide, call, features, featureRemote>>

\* collectFeatures, the search for the feature and the beforeDeploy hook.
DeployFind ==
  /\ feat.pc = "deploy"
  /\ IF Find(feat.featureName) = {}
     THEN FeatFail("cannot find feature", feat.trace)
     ELSE \E thrown \in IF "beforeDeploy" \in Feature.hooks THEN BOOLEAN
                         ELSE {FALSE} :
            IF thrown
            THEN FeatFail("beforeDeploy", FeatureHook(Feature, "beforeDeploy"))
            ELSE feat' = [feat EXCEPT
                   !.pc = "state",
                   !.trace = FeatureHook(Feature, "beforeDeploy")]
  /\ UNCHANGED <<migrationSide, call, features, featureRemote>>

\* getInstanceFeatureState and the test for the bootstrap.
FeatureReadState ==
  /\ feat.pc = "state"
  /\ LET st == GetInstanceFeatureState(featureRemote)
     IN  feat' = [feat EXCEPT
           !.pc = IF IsFeatureBootstrapRequired(feat.clientId, st)
                  THEN "fboot_import"
                  ELSE "merge",
           !.instanceState = st]
  /\ UNCHANGED <<migrationSide, call, features, featureRemote>>

\* An import that would also clear the custom objects of the features.
ImportClearsObjects(frem) ==
  [frem EXCEPT !.b2cToolsFeaturesVersion = 0,
               !.access = IF @ = "notfound" THEN "ok" ELSE @,
               !.objects = [n \in DOMAIN @ |->
                              [exists |-> FALSE, c_vars |-> EmptyVars,
                               c_secretVars |-> EmptyVars]]]

\* The archive that bootstrapFeatures imports: preferences.xml sets
\* b2cToolsFeaturesVersion to 0 and the metadata declares the custom object
\* type and the attributes, so that the state can be read afterwards.
ImportFeaturesArchive(frem) ==
  [frem EXCEPT !.b2cToolsFeaturesVersion = 0,
               !.access = IF @ = "notfound" THEN "ok" ELSE @]

\* bootstrapFeatures: the archive import
FeatureBootstrapImport ==
  /\ feat.pc = "fboot_import"
  /\ \E ok \in BOOLEAN :
       IF ok
       THEN /\ featureRemote' = ImportFeaturesArchive(featureRemote)
            /\ feat' = [feat EXCEPT !.pc = "fboot_read"]
       ELSE /\ FeatFail("import failed", feat.trace)
            /\ UNCHANGED featureRemote
  /\ UNCHANGED <<migrationSide, call, features>>

\* bootstrapFeatures: read the fresh state and record the client id in it
FeatureBootstrapRead ==
  /\ feat.pc = "fboot_read"
  /\ LET st == GetInstanceFeatureState(featureRemote)
     IN  IF ~st.present
         THEN FeatFail("no feature state after import", feat.trace)
         ELSE feat' = [feat EXCEPT
                !.pc = "fboot_write",
                !.instanceState =
                   [st EXCEPT
                      !.b2cToolsFeaturesBootstrappedClientIDs =
                         Stamp(@, feat.clientId,
                               B2C_TOOLS_FEATURES_VERSION)]]
  /\ UNCHANGED <<migrationSide, call, features, featureRemote>>

\* bootstrapFeatures: the PATCH of the version and the client ids; its
\* answer is not looked at. The bootstrap command ends here, deployFeature
\* goes on.
FeatureBootstrapWrite ==
  /\ feat.pc = "fboot_write"
  /\ featureRemote' =
       IF featureRemote.access = "ok"
       THEN [featureRemote EXCEPT
              !.b2cToolsFeaturesVersion = B2C_TOOLS_FEATURES_VERSION,
              !.b2cToolsFeaturesBootstrappedClientIDs =
                 feat.instanceState.b2cToolsFeaturesBootstrappedClientIDs]
       ELSE featureRemote
  /\ feat' = [feat EXCEPT
       !.pc = IF feat.op = "bootstrap" THEN "done" ELSE "fboot_reread"]
  /\ UNCHANGED <<migrationSide, call, features>>

\* instanceState = await getInstanceFeatureState(instance) after the
\* bootstrap
FeatureBootstrapReread ==
  /\ feat.pc = "fboot_reread"
  /\ LET st == GetInstanceFeatureState(featureRemote)
     IN  IF ~st.present
         THEN FeatFail("no feature state", feat.trace)
         ELSE feat' = [feat EXCEPT !.pc = "merge", !.instanceState = st]
  /\ UNCHANGED <<migrationSide, call, features, featureRemote>>

\* instanceState.features.find((f) => f.featureName === featureName): its
\* vars, or {} when the feature is not on the instance
StoredVars(instanceState, name) ==
  IF \E f \in instanceState.features : f.featureName = name
  THEN (CHOOSE f \in instanceState.features : f.featureName = name).vars
  ELSE EmptyVars

\* A merge in the opposite order: the defaults win over the stored variables
\* and these over the variables of the caller.
DefaultsWin(defaultVars, storedVars, callerVars) ==
  Spread(Spread(callerVars, storedVars), defaultVars)

\* {...feature.defaultVars, ...instanceFeatureState.vars, ...vars}
MergeVars(defaultVars, storedVars, callerVars) ==
  Spread(Spread(defaultVars, storedVars), callerVars)

\* 1. Merge vars: defaults < instance state < incoming
DeployMerge ==
  /\ feat.pc = "merge"
  /\ feat' = [feat EXCEPT
       !.pc = "questions",
       !.featureVars =
          MergeVars(Feature.defaultVars,
                    StoredVars(feat.instanceState, feat.featureName),
                    feat.vars),
       !.trace = Append(@, FeatureEvent("merge", feat.featureName))]
  /\ UNCHANGED <<migrationSide, call, features, featureRemote>>

\* what the user can type at the prompt
Answers == {EmptyVars, [x |-> "typed", y |-> "typed"]}

\* A prompt whose answers give way to the variables merged before.
VarsWinOverAnswers(featureVars, available, answers) ==
  IF available THEN Spread(answers, featureVars) ELSE featureVars

\* try { featureVars = {...featureVars, ...answers} } catch { warn }: the
\* variables after the prompt, which is not available when the import of
\* inquirer or the prompt throws
AfterPrompt(featureVars, available, answers) ==
  IF available THEN Spread(featureVars, answers) ELSE featureVars

\* What the questions function of an advanced feature (one that sets itself
\* up on the instance) writes there: the custom object of the feature, with
\* variables of its own.
ProducerVars == [x |-> "9"]

ProducerWrite(frem, name) ==
  IF frem.access = "ok"
  THEN [frem EXCEPT !.objects[name] =
          [exists |-> TRUE, c_vars |-> ProducerVars,
           c_secretVars |-> EmptyVars]]
  ELSE frem

\* 2. Handle questions: the questions of the feature are a function (the
\* hook), a list or nothing. The function of an advanced feature may write
\* to the instance. After the hook the state is read again and kept when
\* the read gives null.
DeployQuestions ==
  /\ feat.pc = "questions"
  /\ IF "questions" \in Feature.hooks
     THEN \E thrown \in BOOLEAN,
             writes \in IF Feature.advanced THEN BOOLEAN ELSE {FALSE} :
            IF thrown
            THEN /\ FeatFail("questions", FeatureHook(Feature, "questions"))
                 /\ UNCHANGED featureRemote
            ELSE LET frem == IF writes
                             THEN ProducerWrite(featureRemote,
                                                feat.featureName)
                             ELSE featureRemote
                     st == GetInstanceFeatureState(frem)
                 IN  /\ featureRemote' = frem
                     /\ feat' = [feat EXCEPT
                          !.pc = "prompt",
                          !.trace = FeatureHook(Feature, "questions"),
                          !.questions = Feature.questionList,
                          !.instanceState =
                             IF st.present THEN st ELSE feat.instanceState]
     ELSE /\ feat' = [feat EXCEPT !.pc = "prompt",
                                  !.questions = Feature.questionList]
          /\ UNCHANGED featureRemote
  /\ UNCHANGED <<migrationSide, call, features>>

\* inquirer.prompt(questions, featureVars) when there are questions; when
\* the import or the prompt throws, the questions are skipped.
DeployPrompt ==
  /\ feat.pc = "prompt"
  /\ IF feat.questions
     THEN \E available \in BOOLEAN, answers \in Answers :
            feat' = [feat EXCEPT
              !.pc = "migrations",
              !.prompt = [asked |-> TRUE, available |-> available,
                          answers |-> IF available THEN answers
                                      ELSE EmptyVars],
              !.featureVars = AfterPrompt(@, available, answers)]
     ELSE feat' = [feat EXCEPT !.pc = "migrations", !.prompt = NoPrompt]
  /\ UNCHANGED <<migrationSide, call, features, featureRemote>>

\* 3. Apply feature migrations: migrateInstance(instance, clientId,
\* featureMigrationDir, {exclude, vars, shortCode}) when the feature has a
\* migrations directory; the other options take their defaults.
DeployMigrate ==
  /\ feat.pc = "migrations"
  /\ IF Feature.hasMigrations
     THEN /\ run[1].pc = "idle"
          /\ Set(1, [IdleRun EXCEPT !.pc = "init", !.clientId = feat.clientId,
                                    !.feature = feat.featureName,
                                    !.remote0 = remote.migrations,
                                    !.start = remote])
          /\ feat' = [feat EXCEPT !.pc = "migrating"]
     ELSE /\ feat' = [feat EXCEPT !.pc = "cartridges"]
          /\ UNCHANGED run
  /\ UNCHANGED <<dir, remote, started, last, external, call, features,
                 featureRemote>>

\* migrateInstance has returned to deployFeature, which makes nothing of
\* what it returns, or has thrown
DeployMigrated ==
  /\ feat.pc = "migrating"
  /\ run[1].pc \in {"done", "failed"}
  /\ Set(1, IdleRun)
  /\ IF run[1].pc = "failed"
     THEN FeatFail("migrations", feat.trace)
     ELSE feat' = [feat EXCEPT
            !.pc = "cartridges",
            !.trace = Append(@, FeatureEvent("migrated", feat.featureName))]
  /\ UNCHANGED <<dir, remote, started, last, external, call, features,
                 featureRemote>>

\* 4. Deploy feature cartridges: when the feature has cartridges that are not
\* excluded, the active code version is looked up and they are uploaded.
DeployCartridges ==
  /\ feat.pc = "cartridges"
  /\ IF Feature.cartridges
     THEN \E outcome \in {"uploaded", "no code version", "upload failed"} :
            IF outcome = "uploaded"
            THEN feat' = [feat EXCEPT
                   !.pc = "finish",
                   !.trace = Append(@, FeatureEvent("cartridges",
                                                    feat.featureName))]
            ELSE FeatFail(outcome, feat.trace)
     ELSE feat' = [feat EXCEPT !.pc = "finish"]
  /\ UNCHANGED <<migrationSide, call, features, featureRemote>>

\* 5. Call finish lifecycle hook
DeployFinish ==
  /\ feat.pc = "finish"
  /\ \E thrown \in IF "finish" \in Feature.hooks THEN BOOLEAN ELSE {FALSE} :
       IF thrown
       THEN FeatFail("finish", FeatureHook(Feature, "finish"))
       ELSE feat' = [feat EXCEPT !.pc = "save",
                                 !.trace = FeatureHook(Feature, "finish")]
  /\ UNCHANGED <<migrationSide, call, features, featureRemote>>

\* 6. Update feature state on instance. deployFeature returns; the update
\* command goes on with its next feature.
DeploySave ==
  /\ feat.pc = "save"
  /\ featureRemote' =
       UpdateFeatureState(featureRemote, feat.featureName, feat.featureVars,
                          Feature.secretVars, feat.saveSecrets)
  /\ feat' = [feat EXCEPT
       !.pc = IF feat.op = "update" THEN "update_next" ELSE "done",
       !.trace = Append(@, FeatureEvent("save", feat.featureName))]
  /\ UNCHANGED <<migrationSide, call, features>>

\* ------------------------------------------------------------ removeFeature

\* The call of removeFeature(instance, featureName, {featuresDir, vars}).
StartRemove(name, callerVars) ==
  /\ feat.pc = "idle"
  /\ feat.count < MaxOperations
  /\ feat' = [IdleFeat EXCEPT
       !.pc = "remove", !.op = "remove", !.featureName = name,
       !.vars = callerVars, !.start = featureRemote,
       !.count = feat.count + 1]
  /\ UNCHANGED <<migrationSide, call, features, featureRemote>>

\* collectFeatures, getInstanceFeatureState and the three early exits
RemoveFind ==
  /\ feat.pc = "remove"
  /\ LET st == GetInstanceFeatureState(featureRemote)
     IN  IF ~st.present
         THEN feat' = [feat EXCEPT !.pc = "done"]
         ELSE IF Find(feat.featureName) = {}
         THEN FeatFail("cannot find feature", feat.trace)
         ELSE IF \A f \in st.features : f.featureName # feat.featureName
         THEN FeatFail("not deployed", feat.trace)
         ELSE feat' = [feat EXCEPT
                !.pc = "remove_hook",
                !.instanceState = st,
                !.featureVars =
                   MergeVars(Feature.defaultVars,
                             StoredVars(st, feat.featureName), feat.vars)]
  /\ UNCHANGED <<migrationSide, call, features, featureRemote>>

\* The removal goes on to the delete request although the hook threw.
DeleteAnyway(thrown) == FALSE

\* await feature.remove(...): what a throw of the hook does to removeFeature
RemoveAborted(thrown) == thrown

\* the remove hook of the feature, when it has one
RemoveHook ==
  /\ feat.pc = "remove_hook"
  /\ \E thrown \in IF "remove" \in Feature.hooks THEN BOOLEAN ELSE {FALSE} :
       IF RemoveAborted(thrown)
       THEN FeatFail("remove", FeatureHook(Feature, "remove"))
       ELSE feat' = [feat EXCEPT
              !.pc = "delete",
              !.error = IF thrown THEN "remove" ELSE "none",
              !.trace = FeatureHook(Feature, "remove")]
  /\ UNCHANGED <<migrationSide, call, features, featureRemote>>

\* DELETE /custom_objects/B2CToolsFeature/{featureName}; the answer is not
\* looked at
RemoveDelete ==
  /\ feat.pc = "delete"
  /\ featureRemote' =
       IF featureRemote.access = "ok"
       THEN [featureRemote EXCEPT !.objects[feat.featureName] = NoObject]
       ELSE featureRemote
  /\ feat' = [feat EXCEPT
       !.pc = "done",
       !.trace = Append(@, FeatureEvent("delete", feat.featureName))]
  /\ UNCHANGED <<migrationSide, call, features>>

\* ------------------------------------------------------- the update command

LocalNames == { f.featureName : f \in features }

\* FeatureUpdate.run() with the client id, the vars and the save-secrets
\* flag of the command line
StartUpdate(cid, callerVars, saveSecrets) ==
  /\ feat.pc = "idle"
  /\ feat.count < MaxOperations
  /\ feat' = [IdleFeat EXCEPT
       !.pc = "update_hooks", !.op = "update", !.clientId = cid,
       !.vars = callerVars, !.saveSecrets = saveSecrets,
       !.queue = InOrder(LocalNames), !.start = featureRemote,
       !.count = feat.count + 1]
  /\ UNCHANGED <<migrationSide, call, features, featureRemote>>

\* for (const feature of features): the beforeDeploy hook of the next
\* feature of the features directory
UpdateBeforeDeploy ==
  /\ feat.pc = "update_hooks"
  /\ feat.queue # <<>>
  /\ LET f == CHOOSE g \in features : g.featureName = Head(feat.queue)
     IN  \E thrown \in IF "beforeDeploy" \in f.hooks THEN BOOLEAN
                         ELSE {FALSE} :
           IF thrown
           THEN FeatFail("beforeDeploy", FeatureHook(f, "beforeDeploy"))
           ELSE feat' = [feat EXCEPT
                  !.queue = Tail(@),
                  !.trace = FeatureHook(f, "beforeDeploy")]
  /\ UNCHANGED <<migrationSide, call, features, featureRemote>>

\* instanceState.features.filter((f) => featureNames.includes(f.featureName))
FeaturesToUpdate(instanceState, featureNames) ==
  InOrder({ f.featureName : f \in instanceState.features } \cap featureNames)

\* getInstanceFeatureState and featuresToUpdate, with the two early returns
UpdateReadState ==
  /\ feat.pc = "update_hooks"
  /\ feat.queue = <<>>
  /\ LET st == GetInstanceFeatureState(featureRemote)
         featuresToUpdate == FeaturesToUpdate(st, LocalNames)
     IN  IF ~st.present \/ featuresToUpdate = <<>>
         THEN feat' = [feat EXCEPT !.pc = "done"]
         ELSE feat' = [feat EXCEPT !.pc = "update_next",
                                   !.queue = featuresToUpdate]
  /\ UNCHANGED <<migrationSide, call, features, featureRemote>>

\* for (const featureName of featuresToUpdate) await deployFeature(...)
UpdateNext ==
  /\ feat.pc = "update_next"
  /\ IF feat.queue = <<>>
     THEN feat' = [feat EXCEPT !.pc = "done"]
     ELSE feat' = [feat EXCEPT !.pc = "deploy",
                               !.featureName = Head(feat.queue),
                               !.queue = Tail(@),
                               !.featureVars = EmptyVars,
                               !.questions = FALSE]
  /\ UNCHANGED <<migrationSide, call, features, featureRemote>>

\* ---------------------------------------------------- the bootstrap command

\* FeatureBootstrap.run(): bootstrapFeatures(instance, clientId)
StartFeatureBootstrap(cid) ==
  /\ feat.pc = "idle"
  /\ feat.count < MaxBootstraps
  /\ feat' = [IdleFeat EXCEPT
       !.pc = "fboot_import", !.op = "bootstrap", !.clientId = cid,
       !.start = featureRemote, !.count = feat.count + 1,
       !.previous = feat.previous]
  /\ UNCHANGED <<migrationSide, call, features, featureRemote>>

\* what is remembered of a run of the bootstrap command that ended
Ended ==
  [op |-> feat.op, outcome |-> feat.pc, clientId |-> feat.clientId,
   after |-> featureRemote]

\* The bootstrap command has returned or thrown.
BootstrapReturn ==
  /\ feat.op = "bootstrap"
  /\ feat.pc \in {"done", "failed"}
  /\ feat' = [IdleFeat EXCEPT !.count = feat.count, !.previous = Ended]
  /\ UNCHANGED <<migrationSide, call, features, featureRemote>>

\* deployFeature, removeFeature or the update command has returned or
\* thrown.
FeatureReturn ==
  /\ feat.op \in {"deploy", "update", "remove"}
  /\ feat.pc \in {"done", "failed"}
  /\ feat' = [IdleFeat EXCEPT !.count = feat.count]
  /\ UNCHANGED <<migrationSide, call, features, featureRemote>>

\* the steps of deployFeature
DeployStep ==
  \/ DeployFind \/ FeatureReadState
  \/ FeatureBootstrapImport \/ FeatureBootstrapRead \/ FeatureBootstrapWrite
  \/ FeatureBootstrapReread
  \/ DeployMerge \/ DeployQuestions \/ DeployPrompt
  \/ DeployMigrate \/ DeployMigrated
  \/ DeployCartridges \/ DeployFinish \/ DeploySave

\* the steps of migrateInstance up to its return
Body(r) ==
  \/ ReadState(r) \/ StateCheck(r)
  \/ BootstrapImport(r) \/ BootstrapRead(r) \/ BootstrapWrite(r)
  \/ BootstrapReread(r)
  \/ Planning(r) \/ UnitBegin(r) \/ ExecStart(r) \/ ExecEnd(r) \/ Caught(r)
  \/ CommitRead(r) \/ CommitWrite(r) \/ AfterEach(r) \/ AfterAll(r)
  \/ WriteLog(r)

\* --------------------------------------------------------- specifications

UnitA == <<"a">>
UnitAB == <<"a", ",", "b", ".js">>
UnitB == <<"b", ".js">>

\* The entries a migrations directory is made of: a directory unit, two
\* script units (one with a comma in its name), the lifecycle module and a
\* file that is no unit.
UnitEntries ==
  {[name |-> UnitA, isDirectory |-> TRUE],
   [name |-> UnitAB, isDirectory |-> FALSE],
   [name |-> UnitB, isDirectory |-> FALSE]}

OtherEntries ==
  {[name |-> SETUP_JS, isDirectory |-> FALSE],
   [name |-> <<"a", ".txt">>, isDirectory |-> FALSE]}

Directories ==
  { U \cup OtherEntries : U \in { V \in SUBSET UnitEntries :
                                    Cardinality(V) <= MaxCatalog } }

\* Applied lists the engine may have written before: ids without repetition
AppliedLists(names, n) ==
  { l \in UNION { [1..m -> names] : m \in 0..n } :
      \A i, j \in 1..Len(l) : i # j => l[i] # l[j] }

Registered(c) ==
  [d \in ClientIds |-> IF d = c THEN B2C_TOOLKIT_DATA_VERSION ELSE NoEntry]

Unregistered == [d \in ClientIds |-> NoEntry]

\* The instance before the first invocation: bootstrapped by c1 at the
\* current version with some units applied, or never bootstrapped (the
\* preference group is not found).
Remotes(names) ==
  { [access |-> "ok", version |-> B2C_TOOLKIT_DATA_VERSION,
     clients |-> Registered("c1"), migrations |-> Join(m), vars |-> 0] :
      m \in AppliedLists(names, MaxApplied) }
  \cup
  { [access |-> "notfound", version |-> NoVersion, clients |-> Unregistered,
     migrations |-> <<>>, vars |-> 0] }

LoopHooks == {"beforeEach", "onFailure"}

\* The lifecycle modules: any of the hooks that change the course of the
\* loop, with all or none of the others.
Bundles ==
  { c \cup o : c \in SUBSET LoopHooks,
               o \in {{}, HookNames \ (LoopHooks \cup {"shouldBootstrap"})} }

Init ==
  /\ dir \in Directories
  /\ remote \in Remotes({UnitA, UnitAB, UnitB})
  /\ run = [r \in Runs |-> IdleRun]
  /\ started = 0
  /\ last = NoLast
  /\ external = <<>>
  /\ FeatureSideIdle

\* One invocation at a time, by client c1, with the default bootstrap options
\* (forceBootstrap false, allowBootstrap true).
Start ==
  \E ap, dr \in BOOLEAN, hk \in Bundles :
    StartRun(1, "c1", ap, dr, FALSE, TRUE, hk)

Next == Start \/ Step(1) \/ Terminate(1)

Spec == Init /\ [][Next]_vars

\* A second family, for runs with another writer: the instance has a prefix
\* of [a, b.js] applied, the directory has units c and d.js, and the other
\* process may add c or d.js to the applied list at any moment.
UnitC == <<"c">>
UnitD == <<"d", ".js">>

WriterUnitEntries ==
  {[name |-> UnitC, isDirectory |-> TRUE],
   [name |-> UnitD, isDirectory |-> FALSE]}

WriterDirectories ==
  { U \cup OtherEntries : U \in { V \in SUBSET WriterUnitEntries :
                                    Cardinality(V) <= MaxCatalog } }

WriterRemotes ==
  { [access |-> "ok", version |-> B2C_TOOLKIT_DATA_VERSION,
     clients |-> Registered("c1"),
     migrations |-> Join(SubSeq(<<UnitA, UnitB>>, 1, n)), vars |-> 0] :
      n \in 0..2 }
  \cup
  { [access |-> "notfound", version |-> NoVersion, clients |-> Unregistered,
     migrations |-> <<>>, vars |-> 0] }

InitWriter ==
  /\ dir \in WriterDirectories
  /\ remote \in WriterRemotes
  /\ run = [r \in Runs |-> IdleRun]
  /\ started = 0
  /\ last = NoLast
  /\ external = <<>>
  /\ FeatureSideIdle

Writer == \E name \in {UnitC, UnitD} : ExternalWrite(name)

\* One invocation at a time that is no dry run, by client c1, with any of
\* the hooks that change the course of the loop.
StartWriter ==
  \E ap \in BOOLEAN, hk \in SUBSET LoopHooks :
    StartRun(1, "c1", ap, FALSE, FALSE, TRUE, hk)

NextWriter == StartWriter \/ Step(1) \/ Terminate(1) \/ Writer

SpecWriter == InitWriter /\ [][NextWriter]_vars

\* A family for the order of the hooks: an instance with nothing applied,
\* bootstrapped or not, a directory of up to two units, every combination of apply and
\* dryRun, and a lifecycle module with all the hooks of the run, or all but
\* beforeEach, or all but onFailure.
RunHooks == HookNames \ {"shouldBootstrap", "onBootstrap"}

HookBundles == {RunHooks, RunHooks \ {"beforeEach"}, RunHooks \ {"onFailure"}}

InitHooks ==
  /\ dir \in WriterDirectories
  /\ remote \in
       {[access |-> "ok", version |-> B2C_TOOLKIT_DATA_VERSION,
         clients |-> Registered("c1"), migrations |-> <<>>, vars |-> 0],
        [access |-> "notfound", version |-> NoVersion,
         clients |-> Unregistered, migrations |-> <<>>, vars |-> 0]}
  /\ run = [r \in Runs |-> IdleRun]
  /\ started = 0
  /\ last = NoLast
  /\ external = <<>>
  /\ FeatureSideIdle

StartHooks ==
  \E ap, dr \in BOOLEAN, hk \in HookBundles :
    StartRun(1, "c1", ap, dr, FALSE, TRUE, hk)

NextHooks == StartHooks \/ Step(1)

SpecHooks == InitHooks /\ [][NextHooks]_vars

\* A family for two runs at the same time: both are started by c1 with the
\* default options and no hooks on the same directory, and their steps
\* interleave at every await. The directory holds two sub-directories, or
\* one whose name has a comma.
ConcurrentDirectories ==
  { U \cup OtherEntries :
      U \in {{[name |-> UnitA, isDirectory |-> TRUE],
              [name |-> UnitC, isDirectory |-> TRUE]},
             {[name |-> UnitAB, isDirectory |-> TRUE]}} }

InitConcurrent ==
  /\ dir \in ConcurrentDirectories
  /\ remote \in
       {[access |-> "ok", version |-> B2C_TOOLKIT_DATA_VERSION,
         clients |-> Registered("c1"), migrations |-> <<>>, vars |-> 0],
        [access |-> "notfound", version |-> NoVersion,
         clients |-> Unregistered, migrations |-> <<>>, vars |-> 0]}
  /\ run = [r \in Runs |-> IdleRun]
  /\ started = 0
  /\ last = NoLast
  /\ external = <<>>
  /\ FeatureSideIdle

StartConcurrent ==
  \E r \in Runs : StartRun(r, "c1", TRUE, FALSE, FALSE, TRUE, {})

NextConcurrent == StartConcurrent \/ \E r \in Runs : Body(r)

SpecConcurrent == InitConcurrent /\ [][NextConcurrent]_vars

\* A family for the merge of the commit: the applied list of the instance
\* may hold an id more than once, and another process may add an id while
\* the run is under way.
MergeRemotes ==
  { [access |-> "ok", version |-> B2C_TOOLKIT_DATA_VERSION,
     clients |-> Registered("c1"), migrations |-> Join(m), vars |-> 0] :
      m \in {<<>>, <<UnitA>>, <<UnitA, UnitA>>, <<UnitA, UnitC, UnitA>>} }
  \cup
  { [access |-> "notfound", version |-> NoVersion, clients |-> Unregistered,
     migrations |-> <<>>, vars |-> 0] }

InitMerge ==
  /\ dir \in WriterDirectories
  /\ remote \in MergeRemotes
  /\ run = [r \in Runs |-> IdleRun]
  /\ started = 0
  /\ last = NoLast
  /\ external = <<>>
  /\ FeatureSideIdle

StartMerge == StartRun(1, "c1", TRUE, FALSE, FALSE, TRUE, {})

NextMerge == StartMerge \/ Step(1) \/ Writer

SpecMerge == InitMerge /\ [][NextMerge]_vars

\* A third family, for the bootstrap decision: any schema version around the
\* expected one, the caller registered at the expected version, at an older
\* one or not at all, every combination of forceBootstrap and allowBootstrap,
\* both client ids, and the hooks of the bootstrap.
Versions ==
  {NoVersion, 0, B2C_TOOLKIT_DATA_VERSION - 1, B2C_TOOLKIT_DATA_VERSION,
   B2C_TOOLKIT_DATA_VERSION + 1}

OptionDirectories ==
  { U \cup OtherEntries :
      U \in SUBSET {[name |-> UnitB, isDirectory |-> FALSE]} }

OptionRemotes ==
  { [access |-> "ok", version |-> v, clients |-> c,
     migrations |-> Join(m), vars |-> 0] :
      v \in Versions,
      c \in {Registered("c1"), Unregistered,
             [Registered("c2") EXCEPT
                !["c1"] = B2C_TOOLKIT_DATA_VERSION - 1]},
      m \in {<<>>, <<UnitA>>} }
  \cup
  { [access |-> a, version |-> NoVersion, clients |-> Unregistered,
     migrations |-> <<>>, vars |-> 0] :
      a \in {"notfound", "forbidden"} \cup Faults }
  \cup
  { [access |-> "readonly", version |-> v, clients |-> c,
     migrations |-> <<>>, vars |-> 0] :
      v \in {NoVersion, B2C_TOOLKIT_DATA_VERSION},
      c \in {Registered("c1"), Unregistered} }

BootstrapHooks == {"shouldBootstrap", "onBootstrap", "beforeAll"}

InitOptions ==
  /\ dir \in OptionDirectories
  /\ remote \in OptionRemotes
  /\ run = [r \in Runs |-> IdleRun]
  /\ started = 0
  /\ last = NoLast
  /\ external = <<>>
  /\ FeatureSideIdle

StartOptions ==
  \E cid \in ClientIds, fb, ab \in BOOLEAN, hk \in SUBSET BootstrapHooks :
    StartRun(1, cid, TRUE, FALSE, fb, ab, hk)

NextOptions == StartOptions \/ Step(1)

SpecOptions == InitOptions /\ [][NextOptions]_vars

\* A family for a bootstrap that is tried again: c1 runs migrateInstance
\* twice, one run after the other, on an instance that was never
\* bootstrapped, was bootstrapped by c2 only, or is up to date; no instance
\* starts at version 0, the version the archive sets. A run that was
\* started goes on until it returns or throws.
RecoverRemotes ==
  { [access |-> "ok", version |-> v, clients |-> c,
     migrations |-> Join(m), vars |-> 0] :
      v \in {NoVersion, B2C_TOOLKIT_DATA_VERSION - 1, B2C_TOOLKIT_DATA_VERSION},
      c \in {Registered("c1"), Unregistered,
             [Registered("c2") EXCEPT
                !["c1"] = B2C_TOOLKIT_DATA_VERSION - 1]},
      m \in {<<>>, <<UnitA>>} }
  \cup
  { [access |-> "notfound", version |-> NoVersion, clients |-> Unregistered,
     migrations |-> <<>>, vars |-> 0] }

InitRecover ==
  /\ dir \in OptionDirectories
  /\ remote \in RecoverRemotes
  /\ run = [r \in Runs |-> IdleRun]
  /\ started = 0
  /\ last = NoLast
  /\ external = <<>>
  /\ FeatureSideIdle

StartRecover ==
  \E fb, ab \in BOOLEAN, hk \in SUBSET {"onBootstrap"} :
    StartRun(1, "c1", TRUE, FALSE, fb, ab, hk)

NextRecover == StartRecover \/ Step(1)

SpecRecover == InitRecover /\ [][NextRecover]_vars /\ WF_vars(Step(1))

\* A family for the two tests of the bootstrap requirement: the function, the
\* client id and the state are drawn, the function is applied.
RegistryVersions(expected) == {NoEntry, 0, expected - 1, expected, expected + 1}

SchemaVersions(expected) ==
  {NoVersion, 0, expected - 1, expected, expected + 1}

MigrationStates ==
  {NullState} \cup
  { [present |-> TRUE, version |-> v, migrations |-> <<>>, clients |-> c,
     vars |-> 0] :
      v \in SchemaVersions(B2C_TOOLKIT_DATA_VERSION),
      c \in [ClientIds -> RegistryVersions(B2C_TOOLKIT_DATA_VERSION)] }

FeatureStates ==
  {FeatureNullState} \cup
  { [present |-> TRUE, b2cToolsFeaturesVersion |-> v,
     b2cToolsFeaturesBootstrappedClientIDs |-> c, features |-> {}] :
      v \in SchemaVersions(B2C_TOOLS_FEATURES_VERSION),
      c \in [ClientIds -> RegistryVersions(B2C_TOOLS_FEATURES_VERSION)] }

InitRequired ==
  /\ dir = {}
  /\ remote = NoRemote
  /\ run = [r \in Runs |-> IdleRun]
  /\ started = 0
  /\ last = NoLast
  /\ external = <<>>
  /\ features = {}
  /\ featureRemote = NoFeatureRemote
  /\ feat = IdleFeat
  /\ call \in
       { [pc |-> "called", fn |-> "isMigrationBootstrapRequired",
          clientId |-> c, instanceState |-> st, result |-> FALSE] :
           c \in ClientIds, st \in MigrationStates }
       \cup
       { [pc |-> "called", fn |-> "isFeatureBootstrapRequired",
          clientId |-> c, instanceState |-> st, result |-> FALSE] :
           c \in ClientIds, st \in FeatureStates }

ApplyMigrationRequired ==
  /\ call.pc = "called" /\ call.fn = "isMigrationBootstrapRequired"
  /\ call' = [call EXCEPT
       !.pc = "returned",
       !.result = IsMigrationBootstrapRequired(call.clientId,
                                               call.instanceState)]
  /\ UNCHANGED <<dir, remote, run, started, last, external, features,
                 featureRemote, feat>>

ApplyFeatureRequired ==
  /\ call.pc = "called" /\ call.fn = "isFeatureBootstrapRequired"
  /\ call' = [call EXCEPT
       !.pc = "returned",
       !.result = IsFeatureBootstrapRequired(call.clientId,
                                             call.instanceState)]
  /\ UNCHANGED <<dir, remote, run, started, last, external, features,
                 featureRemote, feat>>

NextRequired == ApplyMigrationRequired \/ ApplyFeatureRequired

SpecRequired == InitRequired /\ [][NextRequired]_vars

\* A family for collectMigrations on its own: directories of up to
\* MaxEntries entries, each a file or a sub-directory, scanned twice with
\* the same exclusion patterns.
EntryNames ==
  {<<"a", ".js">>, <<"b", ".js">>, <<"a">>, <<"b">>, SETUP_JS,
   <<"c", ".txt">>}

ScannedDirectories ==
  { { [name |-> n, isDirectory |-> kind[n]] : n \in names } :
      names \in { N \in SUBSET EntryNames : Cardinality(N) <= MaxEntries },
      kind \in [EntryNames -> BOOLEAN] }

Exclusions == SUBSET {"a", ".txt"}

InitCollect ==
  /\ dir \in ScannedDirectories
  /\ remote = NoRemote
  /\ run = [r \in Runs |-> IdleRun]
  /\ started = 0
  /\ last = NoLast
  /\ external = <<>>
  /\ features = {}
  /\ featureRemote = NoFeatureRemote
  /\ feat = IdleFeat
  /\ call \in { [pc |-> "called", fn |-> "collectMigrations",
                 exclude |-> x, result |-> <<>>, again |-> <<>>] :
                  x \in Exclusions }

\* const names = await collectMigrations(dir, exclude)
Scan ==
  /\ call.pc = "called"
  /\ call' = [call EXCEPT !.pc = "scanned",
                          !.result = CollectMigrations(dir, call.exclude)]
  /\ UNCHANGED <<dir, remote, run, started, last, external, features,
                 featureRemote, feat>>

\* a second call with the same arguments, the directory unchanged
Rescan ==
  /\ call.pc = "scanned"
  /\ call' = [call EXCEPT !.pc = "rescanned",
                          !.again = CollectMigrations(dir, call.exclude)]
  /\ UNCHANGED <<dir, remote, run, started, last, external, features,
                 featureRemote, feat>>

NextCollect == Scan \/ Rescan

SpecCollect == InitCollect /\ [][NextCollect]_vars

\* A fifth family, for the feature operations. The project has a migrations
\* directory with the script unit b.js and a features directory with the
\* features f1 and f2, or one of them.
FeatureDefinition(name, defaultVars, secretVars, hooks, rest) ==
  [featureName |-> name, defaultVars |-> defaultVars,
   secretVars |-> secretVars, hooks |-> hooks,
   questionList |-> rest, hasMigrations |-> rest,
   migrations |-> IF rest
                  THEN {[name |-> UnitB, isDirectory |-> FALSE]}
                  ELSE {},
   cartridges |-> rest, advanced |-> FALSE]

\* f1: with every hook or none, with the secret variable y or none, and
\* with a list of questions, a migrations directory and cartridges or with
\* none of them
FirstFeatures ==
  { FeatureDefinition("f1", [x |-> "1"], secretVars, hooks, rest) :
      secretVars \in {{}, {"y"}}, hooks \in {{}, FeatureHooks},
      rest \in BOOLEAN }

\* f2: a feature with the hooks of a deployment and nothing else
SecondFeatures ==
  { FeatureDefinition("f2", EmptyVars, {}, {"beforeDeploy", "finish"}, FALSE) }

FeatureDirectories ==
  { f \cup g : f \in {{d} : d \in FirstFeatures},
               g \in {{}} \cup {{d} : d \in SecondFeatures} }
  \cup { {d} : d \in SecondFeatures }

FeatureRegistered(c) ==
  [d \in ClientIds |-> IF d = c THEN B2C_TOOLS_FEATURES_VERSION ELSE NoEntry]

\* The custom object of a deployed feature: its variables, with the secret
\* one in the plain field or redacted there and kept in the secret field
StoredObjects ==
  { [exists |-> TRUE, c_vars |-> [x |-> "2", y |-> "3"],
     c_secretVars |-> EmptyVars],
    [exists |-> TRUE, c_vars |-> [x |-> "2", y |-> REDACTED],
     c_secretVars |-> [y |-> "3"]] }

\* The features side of the instance before the first operation: never
\* bootstrapped (the preferences and the object type are not found), not
\* accessible, or bootstrapped by c1 with f1, f2, both or none deployed.
FeatureRemotes ==
  { [access |-> a, b2cToolsFeaturesVersion |-> NoVersion,
     b2cToolsFeaturesBootstrappedClientIDs |-> Unregistered,
     objects |-> [n \in FeatureNames |-> NoObject]] :
      a \in {"notfound", "forbidden"} }
  \cup
  { [access |-> "ok", b2cToolsFeaturesVersion |-> B2C_TOOLS_FEATURES_VERSION,
     b2cToolsFeaturesBootstrappedClientIDs |-> FeatureRegistered("c1"),
     objects |-> [n \in FeatureNames |-> IF n = "f1" THEN o1 ELSE o2]] :
      o1 \in {NoObject} \cup StoredObjects,
      o2 \in {NoObject,
               [exists |-> TRUE, c_vars |-> [x |-> "2"],
                c_secretVars |-> EmptyVars]} }

\* The migrations side of the instance: bootstrapped by c1 with nothing
\* applied; and, for a features directory with a feature that has a
\* migrations directory (deployFeature looks at this side for no other),
\* bootstrapped by c1 with b.js applied by the project, or never
\* bootstrapped.
ProjectRemotes(directory) ==
  LET bootstrapped(m) ==
        [access |-> "ok", version |-> B2C_TOOLKIT_DATA_VERSION,
         clients |-> Registered("c1"), migrations |-> Join(m), vars |-> 0]
      never ==
        [access |-> "notfound", version |-> NoVersion,
         clients |-> Unregistered, migrations |-> <<>>, vars |-> 0]
  IN  IF \E f \in directory : f.hasMigrations
      THEN {bootstrapped(<<>>), bootstrapped(<<UnitB>>), never}
      ELSE {bootstrapped(<<>>)}

InitFeature ==
  /\ dir = {[name |-> UnitB, isDirectory |-> FALSE]}
  /\ features \in FeatureDirectories
  /\ remote \in ProjectRemotes(features)
  /\ run = [r \in Runs |-> IdleRun]
  /\ started = 0
  /\ last = NoLast
  /\ external = <<>>
  /\ call = NoApplication
  /\ featureRemote \in FeatureRemotes
  /\ feat = IdleFeat

\* the --vars of the command line
CallerVars == {EmptyVars, [y |-> "4"]}

\* feature deploy, feature update and feature remove, one at a time
StartFeature ==
  \E cid \in ClientIds, name \in FeatureNames, callerVars \in CallerVars,
     saveSecrets \in BOOLEAN :
    \/ StartDeploy(cid, name, callerVars, saveSecrets)
    \/ StartUpdate(cid, callerVars, saveSecrets)
    \/ StartRemove(name, callerVars)

NextFeature ==
  \/ StartFeature
  \/ DeployStep
  \/ Body(1)
  \/ RemoveFind \/ RemoveHook \/ RemoveDelete
  \/ UpdateBeforeDeploy \/ UpdateReadState \/ UpdateNext
  \/ FeatureReturn

SpecFeature == InitFeature /\ [][NextFeature]_vars

\* A family for deployFeature on its own: f1 is an advanced feature, whose
\* questions function may write the custom object of the feature, deployed
\* by c1 or c2 on an instance where it is stored or not.
AdvancedFeatures ==
  { [d EXCEPT !.advanced = TRUE] :
      d \in { f \in FirstFeatures : f.hooks = FeatureHooks } }

InitDeploy ==
  /\ dir = {[name |-> UnitB, isDirectory |-> FALSE]}
  /\ features \in { {d} : d \in AdvancedFeatures }
  /\ remote \in ProjectRemotes(features)
  /\ run = [r \in Runs |-> IdleRun]
  /\ started = 0
  /\ last = NoLast
  /\ external = <<>>
  /\ call = NoApplication
  /\ featureRemote \in FeatureRemotes
  /\ feat = IdleFeat

StartDeployOnly ==
  \E cid \in ClientIds, name \in FeatureNames, callerVars \in CallerVars,
     saveSecrets \in BOOLEAN :
    StartDeploy(cid, name, callerVars, saveSecrets)

NextDeploy == StartDeployOnly \/ DeployStep \/ Body(1) \/ FeatureReturn

SpecDeploy == InitDeploy /\ [][NextDeploy]_vars

\* A sixth family, for bootstraps one after the other: migrateInstance is
\* called with forceBootstrap up to MaxRuns times and the feature bootstrap
\* command is run up to MaxBootstraps times, in any order, one command at a
\* time. The instance has applied units and deployed features or not.
BootstrapRemotes ==
  { [access |-> "ok", version |-> v, clients |-> c,
     migrations |-> Join(<<UnitA>>), vars |-> 0] :
      v \in {B2C_TOOLKIT_DATA_VERSION, B2C_TOOLKIT_DATA_VERSION + 1},
      c \in {Registered("c1"), Unregistered} }
  \cup
  { [access |-> "notfound", version |-> NoVersion, clients |-> Unregistered,
     migrations |-> <<>>, vars |-> 0] }

BootstrapFeatureRemotes ==
  { r \in FeatureRemotes :
      /\ r.access # "forbidden"
      /\ r.objects["f1"].c_secretVars = EmptyVars
      /\ r.objects["f2"] = NoObject }

InitBootstrap ==
  /\ dir = {[name |-> UnitB, isDirectory |-> FALSE]}
  /\ remote \in BootstrapRemotes
  /\ run = [r \in Runs |-> IdleRun]
  /\ started = 0
  /\ last = NoLast
  /\ external = <<>>
  /\ call = NoApplication
  /\ features = {}
  /\ featureRemote \in BootstrapFeatureRemotes
  /\ feat = IdleFeat

\* no command is running
Quiet ==
  /\ feat.pc = "idle"
  /\ \A r \in Runs : run[r].pc \in {"idle", "done", "failed"}

\* migrations run --force-bootstrap: the r-th invocation
StartForced ==
  \E r \in Runs, cid \in ClientIds, hk \in SUBSET {"onBootstrap"} :
    /\ Quiet
    /\ \A q \in Runs : q < r => run[q].pc # "idle"
    /\ StartRun(r, cid, TRUE, FALSE, TRUE, TRUE, hk)

\* migrations feature bootstrap
StartBootstrapCommand ==
  \E cid \in ClientIds : Quiet /\ StartFeatureBootstrap(cid)

NextBootstrap ==
  \/ StartForced
  \/ \E r \in Runs : Body(r)
  \/ StartBootstrapCommand
  \/ FeatureBootstrapImport \/ FeatureBootstrapRead \/ FeatureBootstrapWrite
  \/ BootstrapReturn

SpecBootstrap == InitBootstrap /\ [][NextBootstrap]_vars

\* ------------------------------------------------- what the claims speak of

\* The applied list a reader of the remote state gets from the stored text.
AppliedUnits(text) == IF text # <<>> THEN Split(text) ELSE <<>>

Catalog == CollectMigrations(dir, {})

\* positions of the events e about unit u in the trace of r
At(r, e, u) ==
  { i \in 1..Len(run[r].trace) : run[r].trace[i] = Event(e, u) }

Happened(r, e, u) == At(r, e, u) # {}

IsExec(ev) == ev.ev = "exec"
IsAttempt(ev) == ev.ev \in {"exec", "invalid"}

UnitsOf(events) == [i \in 1..Len(events) |-> events[i].unit]

\* the units whose body was called, in the order of the calls
Executed(r) == UnitsOf(SelectSeq(run[r].trace, IsExec))

\* the units that reached the try block, in order
Attempted(r) == UnitsOf(SelectSeq(run[r].trace, IsAttempt))

DefaultOptions(x) == x.apply /\ ~x.dryRun

\* ------------------------------------------------------------------ claims

CommaFree(name) == \A i \in 1..Len(name) : name[i] # COMMA

\* No unit of the migrations directory has a comma in its name.
PlainNames == \A e \in dir : CommaFree(e.name)

\* C1: after a run that completed with the default options (apply, no dry
\* run), a second run with the same directory and options executes no unit
\* and leaves the remote applied list as it found it.
C1_Idempotent ==
  \A r \in Runs :
    (/\ run[r].pc # "idle"
     /\ last.outcome = "done" /\ DefaultOptions(last)
     /\ DefaultOptions(run[r]))
    => /\ Executed(r) = <<>>
       /\ remote.migrations = run[r].remote0

\* C1 for directories whose unit names have no comma (where the stored text
\* reads back as the list that was written).
C1_IdempotentPlainNames == PlainNames => C1_Idempotent

\* C2: a run that completes with apply enabled (no dry run, no beforeEach
\* hook that could veto a unit) executes exactly the units of the directory
\* that are not in the remote applied list, each once and in order, and the
\* remote list is then the initial list followed by those units.
C2_ExactlyPending ==
  \A r \in Runs :
    (run[r].pc = "done" /\ DefaultOptions(run[r])
       /\ "beforeEach" \notin run[r].hooks)
    => LET initial == AppliedUnits(run[r].remote0)
           pending == FilterNotIn(Catalog, initial)
       IN  /\ Attempted(r) = pending
           /\ AppliedUnits(remote.migrations) = initial \o pending

C2_ExactlyPendingPlainNames == PlainNames => C2_ExactlyPending

\* C3: the pending units are in the order of the catalog, and when a unit v
\* starts (beforeEach, or its execution), everything about each unit u before
\* it is over: the execution of u has returned or thrown and, with apply,
\* the commit of u has been written.
C3_InCatalogOrder ==
  \A r \in Runs :
    LET todo == run[r].migrationsToApply
        tr == run[r].trace
    IN  /\ \A i, j \in 1..Len(todo) : i < j => LocaleLess(todo[i], todo[j])
        /\ \A p \in 1..Len(tr) :
             tr[p].ev \in {"beforeEach", "exec", "invalid"} =>
             \A j \in 1..Len(todo), i \in 1..Len(todo) :
             (tr[p].unit = todo[j] /\ i < j)
             => LET u == todo[i]
                IN  /\ \A q \in 1..Len(tr) : tr[q].unit = u => q < p
                    /\ Happened(r, "exec", u)
                         => \E q \in 1..(p - 1) :
                              tr[q] \in {Event("executed", u),
                                         Event("threw", u)}
                    /\ run[r].apply
                         => \E q \in 1..(p - 1) : tr[q] = Event("commit", u)

\* Two pending units; the first was executed and committed, the second is
\* being executed.
C3_Witness ==
  \E r \in Runs :
    /\ Len(run[r].migrationsToApply) = 2
    /\ Happened(r, "executed", run[r].migrationsToApply[1])
    /\ Happened(r, "commit", run[r].migrationsToApply[1])
    /\ Happened(r, "exec", run[r].migrationsToApply[2])

\* C4: when the execution of a unit throws and there is no onFailure hook,
\* the run fails; the failing unit is not in the remote applied list, no
\* later unit was touched, afterEach and afterAll were not called, and the
\* remote list holds the initial units and those committed before, no other.
C4_HaltsOnFailure ==
  \A r \in Runs :
    (run[r].pc = "failed" /\ run[r].error \in {"unit threw", "not a function"}
       /\ "onFailure" \notin run[r].hooks)
    => LET u == Migration(r)
           todo == run[r].migrationsToApply
           applied == Range(AppliedUnits(remote.migrations))
       IN  /\ u \notin applied
           /\ \A j \in (run[r].idx + 1)..Len(todo), q \in 1..Len(run[r].trace) :
                run[r].trace[q].unit # todo[j]
           /\ ~Happened(r, "afterEach", u)
           /\ ~Happened(r, "afterAll", NoUnit)
           /\ applied = Range(AppliedUnits(run[r].remote0))
                          \cup Units(r, "commit")

C4_HaltsOnFailurePlainNames == PlainNames => C4_HaltsOnFailure

\* C5: when the execution of a unit throws and the bundle has onFailure, the
\* hook is called next, with that unit. If it returns, the unit is committed
\* (with apply, the commit write is the next thing that happens) and the run
\* goes on; the run fails at that point only if the hook throws, and then the
\* unit is not committed and nothing else happens.
C5_OnFailure ==
  \A r \in Runs :
    LET tr == run[r].trace
    IN  /\ \A p \in 1..Len(tr) :
             (tr[p].ev \in {"threw", "invalid"}
                /\ "onFailure" \in run[r].hooks)
             => \/ p = Len(tr) /\ run[r].pc = "caught"
                               /\ Migration(r) = tr[p].unit
                \/ p < Len(tr) /\ tr[p + 1] = Event("onFailure", tr[p].unit)
        /\ \A p \in 1..Len(tr) :
             tr[p].ev = "onFailure"
             => LET u == tr[p].unit
                IN  IF run[r].pc = "failed" /\ Migration(r) = u
                    THEN /\ run[r].error = "onFailure threw"
                         /\ p = Len(tr)
                         /\ ~Happened(r, "commit", u)
                    ELSE /\ (p = Len(tr) /\ run[r].apply)
                           => /\ run[r].pc \in {"commit", "commit_write"}
                              /\ Migration(r) = u
                         /\ (p < Len(tr) /\ run[r].apply)
                           => tr[p + 1] = Event("commit", u)
                         /\ Happened(r, "commit", u)
                           => u \in Range(run[r].instanceMigrations)
        /\ (run[r].pc = "failed" /\ run[r].error = "onFailure threw")
             => /\ Len(tr) > 0
                /\ tr[Len(tr)] = Event("onFailure", Migration(r))

\* A unit threw, onFailure returned, the unit was committed and the next
\* unit has been started.
C5_Witness ==
  \E r \in Runs :
    /\ Len(run[r].migrationsToApply) = 2
    /\ Happened(r, "threw", run[r].migrationsToApply[1])
    /\ Happened(r, "onFailure", run[r].migrationsToApply[1])
    /\ Happened(r, "commit", run[r].migrationsToApply[1])
    /\ Happened(r, "exec", run[r].migrationsToApply[2])

\* C6: a script unit that exports no function makes the run fail, whatever
\* the hooks: once the engine has found the export not to be callable, the
\* unit is never committed and the run goes no further than the catch block.
C6_InvalidUnitFatal ==
  \A r \in Runs :
    \A u \in Range(run[r].migrationsToApply) :
      Happened(r, "invalid", u)
      => /\ ~Happened(r, "commit", u)
         /\ Migration(r) = u
         /\ run[r].pc \in {"caught", "failed"}

\* C7: when beforeEach returns false for a unit, its body is never executed;
\* the unit is committed all the same (with apply, the commit write is what
\* happens next and the written list holds the unit), afterEach is called
\* for it, the run does not fail on it and a completed run has committed
\* every pending unit.
C7_Veto ==
  \A r \in Runs :
    LET tr == run[r].trace
    IN  /\ \A p \in 1..Len(tr) :
             tr[p].ev = "skip"
             => LET u == tr[p].unit
                IN  /\ ~Happened(r, "exec", u) /\ ~Happened(r, "invalid", u)
                    /\ (p = Len(tr) /\ run[r].apply)
                         => /\ run[r].pc \in {"commit", "commit_write"}
                            /\ Migration(r) = u
                    /\ (p < Len(tr) /\ run[r].apply)
                         => tr[p + 1] = Event("commit", u)
                    /\ (p + 1 < Len(tr) /\ run[r].apply
                          /\ "afterEach" \in run[r].hooks)
                         => tr[p + 2] = Event("afterEach", u)
                    /\ (p < Len(tr) /\ ~run[r].apply
                          /\ "afterEach" \in run[r].hooks)
                         => tr[p + 1] = Event("afterEach", u)
                    /\ (run[r].pc = "after_each" /\ Migration(r) = u
                          /\ run[r].apply)
                         => /\ u \in Range(run[r].instanceMigrations)
                            /\ remote.migrations
                                 = Join(run[r].instanceMigrations)
                    /\ ~(run[r].pc = "failed" /\ Migration(r) = u)
        /\ (run[r].pc = "done" /\ DefaultOptions(run[r]))
             => \A v \in Range(run[r].migrationsToApply) :
                  Happened(r, "commit", v)

\* beforeEach returned false for the first of two pending units; the unit
\* was committed, afterEach was called, and the second unit was executed.
C7_Witness ==
  \E r \in Runs :
    /\ Len(run[r].migrationsToApply) = 2
    /\ Happened(r, "skip", run[r].migrationsToApply[1])
    /\ Happened(r, "commit", run[r].migrationsToApply[1])
    /\ Happened(r, "afterEach", run[r].migrationsToApply[1])
    /\ Happened(r, "executed", run[r].migrationsToApply[2])

\* C8: while a run is under way and when it has ended, every id the remote
\* applied list held when the run started is still in it, and every id that
\* is new in it is the id of a unit of the migrations directory.
C8_Monotonic ==
  \A r \in Runs :
    run[r].pc # "idle"
    => LET before == Range(AppliedUnits(run[r].remote0))
           now == Range(AppliedUnits(remote.migrations))
       IN  /\ before \subseteq now
           /\ (now \ before) \subseteq Range(Catalog)

C8_MonotonicPlainNames == PlainNames => C8_Monotonic

\* C8, the half that holds for every name: no id is lost.
C8_NeverShrinks ==
  \A r \in Runs :
    run[r].pc # "idle"
    => Range(AppliedUnits(run[r].remote0))
         \subseteq Range(AppliedUnits(remote.migrations))

\* C10: after a run with apply enabled was terminated, the following run
\* (same directory, default options, no beforeEach hook) executes no unit
\* whose commit had been written, and once it is done it has executed every
\* unit that was pending and not committed.
C10_Resume ==
  \A r \in Runs :
    (run[r].pc # "idle" /\ last.outcome = "terminated" /\ DefaultOptions(last)
       /\ DefaultOptions(run[r]) /\ "beforeEach" \notin run[r].hooks)
    => /\ \A u \in last.committed : ~Happened(r, "exec", u)
       /\ run[r].pc = "done"
            => \A u \in last.pending \ last.committed :
                 u \in Range(Attempted(r))

C10_ResumePlainNames == PlainNames => C10_Resume

\* C11: in a dry run no unit is executed (nothing reaches the try block),
\* beforeEach, afterEach and afterAll are not called, no commit is written
\* and the remote applied list stays as the run found it; when the module
\* has beforeAll, it has been called once planning is over, with the pending
\* list and dryRun = true.
C11_DryRun ==
  \A r \in Runs :
    (run[r].pc # "idle" /\ run[r].dryRun)
    => /\ \A p \in 1..Len(run[r].trace) :
            run[r].trace[p].ev \notin
              {"exec", "invalid", "executed", "threw", "skip", "commit",
               "beforeEach", "afterEach", "afterAll", "onFailure"}
       /\ run[r].pc \notin {"exec", "running", "caught", "commit",
                             "commit_write", "after_each"}
       /\ remote.migrations = run[r].remote0
       /\ run[r].migrationsRan = <<>>
       /\ (run[r].pc \in {"unit", "after_all", "log", "done"}
             /\ "beforeAll" \in run[r].hooks)
            => /\ Happened(r, "beforeAll", NoUnit)
               /\ run[r].beforeAll =
                    [called |-> TRUE,
                     migrationsToApply |->
                       FilterNotIn(Catalog,
                                   AppliedUnits(remote.migrations)),
                     apply |-> run[r].apply, dryRun |-> TRUE]

\* A dry run with two pending units and every hook of the loop is done:
\* beforeAll was called with the two units.
C11_Witness ==
  \E r \in Runs :
    /\ run[r].pc = "done" /\ run[r].dryRun
    /\ {"beforeAll", "beforeEach", "afterEach", "afterAll"}
         \subseteq run[r].hooks
    /\ Len(run[r].migrationsToApply) = 2
    /\ run[r].beforeAll.called
    /\ run[r].beforeAll.migrationsToApply = run[r].migrationsToApply

\* C12: when the schema version read at StateCheck is above the expected
\* one, the run fails with the version-skew error, whoever calls and
\* whatever the options: it goes no further than the check, no bootstrap is
\* started and the remote state stays as it was, its version included.
C12_VersionSkew ==
  \A r \in Runs :
    (/\ run[r].pc \notin {"idle", "init", "check"}
     /\ run[r].read0.present
     /\ run[r].read0.version > B2C_TOOLKIT_DATA_VERSION)
    => /\ run[r].pc = "failed"
       /\ run[r].error = "version skew"
       /\ ~Happened(r, "bootstrap", NoUnit)
       /\ remote = run[r].start

\* C12, the part about the version alone: it is never lowered.
C12_VersionNotLowered ==
  \A r \in Runs :
    (/\ run[r].pc \notin {"idle", "init", "check"}
     /\ run[r].read0.present
     /\ run[r].read0.version > B2C_TOOLKIT_DATA_VERSION)
    => remote.version >= run[r].read0.version

\* C12 for the runs in which no bootstrap is required or forced (there the
\* check of the version is reached).
C12_VersionSkewUnforced ==
  \A r \in Runs :
    (/\ run[r].pc \notin {"idle", "init", "check"}
     /\ run[r].read0.present
     /\ run[r].read0.version > B2C_TOOLKIT_DATA_VERSION
     /\ ~run[r].forceBootstrap
     /\ ~IsMigrationBootstrapRequired(run[r].clientId, run[r].read0)
     /\ run[r].shouldBootstrap \notin {"true", "throw"})
    => /\ run[r].pc = "failed"
       /\ run[r].error = "version skew"
       /\ ~Happened(r, "bootstrap", NoUnit)
       /\ remote = run[r].start

\* C13: when bootstrap is required (by isMigrationBootstrapRequired on the
\* state read at StateCheck, or by shouldBootstrap returning true or
\* throwing) and allowBootstrap is false, the run fails at the check with
\* the bootstrap-required error, whatever forceBootstrap is: no bootstrap is
\* started, beforeAll is not called, no unit is touched and the remote state
\* is as it was when the run started.
C13_BootstrapRefused ==
  \A r \in Runs :
    (/\ run[r].pc \notin {"idle", "init", "check"}
     /\ ~ReadError(run[r].start)
     /\ ~run[r].allowBootstrap
     /\ \/ IsMigrationBootstrapRequired(run[r].clientId, run[r].read0)
        \/ run[r].shouldBootstrap \in {"true", "throw"})
    => /\ run[r].pc = "failed"
       /\ run[r].error = "bootstrap required"
       /\ \A p \in 1..Len(run[r].trace) :
            run[r].trace[p].ev \in {"init", "shouldBootstrap"}
       /\ ~run[r].beforeAll.called
       /\ run[r].migrationsToApply = <<>>
       /\ remote = run[r].start

\* A run with forceBootstrap true and allowBootstrap false, whose
\* shouldBootstrap hook asked for a bootstrap of an up-to-date instance, has
\* failed.
C13_Witness ==
  \E r \in Runs :
    /\ run[r].pc = "failed"
    /\ ~run[r].allowBootstrap /\ run[r].forceBootstrap
    /\ ~IsMigrationBootstrapRequired(run[r].clientId, run[r].read0)
    /\ run[r].shouldBootstrap = "true"
    /\ "beforeAll" \in run[r].hooks
    /\ Catalog # <<>>

\* C14: each of the two tests returns true exactly when the state is absent,
\* or its schema version is unset or below the expected one, or the client
\* id is not in the registry, or it is registered at a version below the
\* expected one; so it returns false for a present state whose version is
\* the expected one or above and whose registry has the client at the
\* expected version or above.
C14_Required ==
  call.pc = "returned"
  => LET st == call.instanceState
         migration == call.fn = "isMigrationBootstrapRequired"
         expected == IF migration THEN B2C_TOOLKIT_DATA_VERSION
                     ELSE B2C_TOOLS_FEATURES_VERSION
         version == IF migration THEN st.version
                    ELSE st.b2cToolsFeaturesVersion
         registered == IF migration THEN st.clients[call.clientId]
                       ELSE st.b2cToolsFeaturesBootstrappedClientIDs
                              [call.clientId]
     IN  call.result
           <=> \/ ~st.present
               \/ version = NoVersion
               \/ version # NoVersion /\ version < expected
               \/ registered = NoEntry
               \/ registered # NoEntry /\ registered < expected

\* isMigrationBootstrapRequired has returned false for a state whose schema
\* version is above the expected one.
C14_Witness ==
  /\ call.pc = "returned" /\ ~call.result
  /\ call.fn = "isMigrationBootstrapRequired"
  /\ call.instanceState.version > B2C_TOOLKIT_DATA_VERSION

\* C9: when the applied list the run re-reads before the commit of its
\* first pending unit D is the list it planned with plus one id C that
\* another process has added in the meantime, the list the run writes at
\* that commit holds exactly the planned ids, C and D, each once.
C9_Merge ==
  \A r \in Runs :
    \A c \in {UnitC, UnitD} :
      (/\ run[r].pc \in {"commit_write", "after_each"}
       /\ run[r].apply /\ run[r].idx = 1
       /\ c \notin Range(run[r].planned)
       /\ run[r].instanceState.present
       /\ run[r].instanceState.migrations = Append(run[r].planned, c))
      => LET written == run[r].instanceMigrations
         IN  /\ Range(written) = Range(run[r].planned) \cup {c, Migration(r)}
             /\ Cardinality(Range(written)) = Len(written)
             /\ Happened(r, "commit", Migration(r))
                  => Range(written)
                       \subseteq Range(AppliedUnits(remote.migrations))

\* The list was [a, b.js] at planning, the other process made it
\* [a, b.js, c] while d.js was being executed, and the commit of d.js has
\* written [a, b.js, c, d.js].
C9_Witness ==
  \E r \in Runs :
    /\ run[r].pc = "after_each"
    /\ run[r].planned = <<UnitA, UnitB>>
    /\ Migration(r) = UnitD
    /\ Happened(r, "executed", UnitD)
    /\ external = <<[name |-> UnitC, during |-> UnitD]>>
    /\ run[r].instanceState.migrations = <<UnitA, UnitB, UnitC>>
    /\ run[r].instanceMigrations = <<UnitA, UnitB, UnitC, UnitD>>
    /\ Range(AppliedUnits(remote.migrations)) = {UnitA, UnitB, UnitC, UnitD}

\* A migrateInstance whose bootstrap has been carried out to its end
Bootstrapped(r) ==
  /\ Happened(r, "bootstrap", NoUnit)
  /\ run[r].pc \notin {"idle", "boot_import", "boot_read", "boot_write"}
  /\ run[r].error \notin {"import failed", "no instance state after import",
                          "onBootstrap"}

\* The step is one of bootstrapMigrations in run r.
BootstrapMigrationsStep(r) ==
  /\ run[r].pc \in {"boot_import", "boot_read", "boot_write"}
  /\ run'[r] # run[r]

\* The step is one of bootstrapFeatures.
BootstrapFeaturesStep ==
  /\ feat.pc \in {"fboot_import", "fboot_read", "fboot_write"}
  /\ feat' # feat

\* the second of two bootstrapMigrations in a row by one client leaves the
\* version and the registry as the first left them
C15_MigrationsTwice ==
  \A r \in Runs \ {1} :
    (/\ Bootstrapped(r - 1) /\ Bootstrapped(r)
     /\ run[r - 1].clientId = run[r].clientId)
    => /\ remote.version = run[r].start.version
       /\ remote.clients = run[r].start.clients

\* the same for two runs of bootstrapFeatures in a row
C15_FeaturesTwice ==
  (/\ feat.op = "bootstrap" /\ feat.pc = "done"
   /\ feat.previous.op = "bootstrap" /\ feat.previous.outcome = "done"
   /\ feat.previous.clientId = feat.clientId)
  => /\ feat.start = feat.previous.after
     /\ featureRemote.b2cToolsFeaturesVersion
          = feat.start.b2cToolsFeaturesVersion
     /\ featureRemote.b2cToolsFeaturesBootstrappedClientIDs
          = feat.start.b2cToolsFeaturesBootstrappedClientIDs

\* no step of either bootstrap changes the applied list or a feature object
C15_Frame ==
  ((\E r \in Runs : BootstrapMigrationsStep(r)) \/ BootstrapFeaturesStep)
  => /\ remote'.migrations = remote.migrations
     /\ featureRemote'.objects = featureRemote.objects

\* C15: bootstrap is idempotent and leaves applied work alone. When
\* bootstrapMigrations, or bootstrapFeatures, is run twice in a row by the
\* same client id, the remote version and the registry of client ids after
\* the second run are what they were after the first; and no step of either
\* bootstrap changes the remote applied list or any feature custom object.
C15_BootstrapIdempotent ==
  /\ [](C15_MigrationsTwice /\ C15_FeaturesTwice)
  /\ [][C15_Frame]_vars

\* Both bootstraps have been run twice by one client on an instance with an
\* applied unit and a deployed feature.
C15_Witness ==
  /\ Cardinality(Runs) >= 2
  /\ Bootstrapped(1) /\ Bootstrapped(2)
  /\ run[1].clientId = run[2].clientId
  /\ run[1].start.migrations # <<>>
  /\ run[1].start.clients[run[1].clientId] = B2C_TOOLKIT_DATA_VERSION
  /\ feat.op = "bootstrap" /\ feat.pc = "done"
  /\ feat.previous.op = "bootstrap" /\ feat.previous.outcome = "done"
  /\ feat.previous.clientId = feat.clientId
  /\ \E n \in FeatureNames : featureRemote.objects[n].exists

\* the run r of migrateInstance is the one deployFeature makes for the
\* migrations of a feature, and it has planned
FeatureRunPlanned(r) ==
  /\ run[r].feature # NoFeature
  /\ run[r].pc \in {"unit", "running", "caught", "commit", "commit_write",
                     "after_each", "after_all", "log", "done"}

\* the run for a feature leaves the applied list of the project as it was
C16_ProjectListUntouched ==
  \A r \in Runs :
    run[r].feature # NoFeature
      => AppliedUnits(remote.migrations)
           = AppliedUnits(run[r].start.migrations)

\* the run for a feature plans every unit of the feature, whatever the
\* applied list of the project holds
C16_FeatureUnitsPlanned ==
  \A r \in Runs :
    FeatureRunPlanned(r)
      => Range(CollectMigrations(MigrationsDir(r), {}))
           \subseteq Range(run[r].migrationsToApply)

\* C16: the run of migrateInstance that deployFeature makes for the
\* migrations of a feature uses an applied set of its own: the commit of a
\* unit of the feature adds no id to the applied list of the project, and an
\* id in the applied list of the project does not make the unit of that name
\* of the feature count as applied.
C16_SeparateAppliedSet ==
  C16_ProjectListUntouched /\ C16_FeatureUnitsPlanned

\* The variables the instance holds for the feature n: those of the secret
\* field of its custom object over those of the plain field; none when the
\* feature is not deployed.
Stored(n) ==
  LET obj == featureRemote.objects[n]
  IN  IF featureRemote.access = "ok" /\ obj.exists
      THEN [k \in DOMAIN obj.c_vars \cup DOMAIN obj.c_secretVars |->
              IF k \in DOMAIN obj.c_secretVars THEN obj.c_secretVars[k]
              ELSE obj.c_vars[k]]
      ELSE EmptyVars

\* deployFeature has just merged the variables of its feature
Merged == feat.pc = "questions"

\* C17: the variables deployFeature merges are, key by key, the value of
\* the caller when the caller gives the key, else the value stored on the
\* instance when there is one, else the default of the feature, and no
\* other key; the defaults {x:1}, the stored {x:2, y:3} and the caller's
\* {y:4} give exactly {x:2, y:4}.
C17_MergePrecedence ==
  Merged =>
    LET defaults == Feature.defaultVars
        stored == Stored(feat.featureName)
        caller == feat.vars
        merged == feat.featureVars
    IN  /\ DOMAIN merged = DOMAIN defaults \cup DOMAIN stored \cup DOMAIN caller
        /\ \A k \in DOMAIN merged :
             merged[k] = IF k \in DOMAIN caller THEN caller[k]
                         ELSE IF k \in DOMAIN stored THEN stored[k]
                         ELSE defaults[k]
        /\ (/\ defaults = [x |-> "1"]
            /\ stored = [x |-> "2", y |-> "3"]
            /\ caller = [y |-> "4"])
           => merged = [x |-> "2", y |-> "4"]

\* The merge of the defaults {x:1}, the stored {x:2, y:3} and the caller's
\* {y:4} has been made.
C17_Witness ==
  /\ Merged
  /\ Feature.defaultVars = [x |-> "1"]
  /\ Stored(feat.featureName) = [x |-> "2", y |-> "3"]
  /\ feat.vars = [y |-> "4"]
  /\ feat.featureVars = [x |-> "2", y |-> "4"]

\* deployFeature has just written the state of its feature with
\* updateFeatureState
Saved ==
  /\ feat.pc \in {"done", "update_next"}
  /\ feat.trace # <<>>
  /\ feat.trace[Len(feat.trace)] = FeatureEvent("save", feat.featureName)

\* C18: what updateFeatureState writes for the variables it is given. For
\* every name of secretVars that has a value: with saveSecrets the secret
\* field holds the value and the plain field holds the redaction marker;
\* without saveSecrets the name is in neither field. In both cases the
\* plain field does not hold the value of a secret variable, and every
\* variable that is not in secretVars is in the plain field with its value.
C18_SecretTransform ==
  Saved =>
    LET written == featureRemote.objects[feat.featureName]
        given == feat.featureVars
        secret == Feature.secretVars \cap DOMAIN given
    IN  /\ written.exists
        /\ \A k \in secret :
             /\ IF feat.saveSecrets
                THEN /\ k \in DOMAIN written.c_secretVars
                     /\ written.c_secretVars[k] = given[k]
                     /\ k \in DOMAIN written.c_vars
                     /\ written.c_vars[k] = REDACTED
                ELSE /\ k \notin DOMAIN written.c_vars
                     /\ k \notin DOMAIN written.c_secretVars
             /\ k \in DOMAIN written.c_vars => written.c_vars[k] # given[k]
        /\ \A k \in DOMAIN given \ Feature.secretVars :
             /\ k \in DOMAIN written.c_vars
             /\ written.c_vars[k] = given[k]
        /\ DOMAIN written.c_vars \subseteq DOMAIN given
        /\ DOMAIN written.c_secretVars \subseteq secret

\* The state of a feature with the secret variable y has been written with
\* saveSecrets: y = 4 is in the secret field, the marker is in the plain
\* field next to x.
C18_Witness ==
  /\ Saved
  /\ Feature.secretVars = {"y"}
  /\ feat.saveSecrets
  /\ feat.featureVars = [x |-> "1", y |-> "4"]
  /\ featureRemote.objects[feat.featureName].c_vars
       = [x |-> "1", y |-> REDACTED]
  /\ featureRemote.objects[feat.featureName].c_secretVars = [y |-> "4"]

\* The same without saveSecrets: y is in neither field.
C18_WitnessDropped ==
  /\ Saved
  /\ Feature.secretVars = {"y"}
  /\ ~feat.saveSecrets
  /\ feat.featureVars = [x |-> "1", y |-> "4"]
  /\ featureRemote.objects[feat.featureName].c_vars = [x |-> "1"]
  /\ featureRemote.objects[feat.featureName].c_secretVars = EmptyVars

\* positions of the event e about the feature n in the trace
FeatureAt(e, n) ==
  { i \in 1..Len(feat.trace) : feat.trace[i] = FeatureEvent(e, n) }

\* C19: in removeFeature, when the remove hook of the feature throws, the
\* call fails with that exception and the custom object of the feature is
\* not deleted; the delete request is made only when the hook has returned
\* normally or the feature has no remove hook.
C19_RemoveHookThrows ==
  feat.op = "remove" =>
    LET n == feat.featureName
    IN  /\ feat.error = "remove"
           => /\ feat.pc = "failed"
              /\ FeatureAt("delete", n) = {}
              /\ featureRemote.objects[n] = feat.start.objects[n]
              /\ featureRemote.objects[n].exists
        /\ FeatureAt("delete", n) # {}
           => /\ feat.error = "none"
              /\ "remove" \in Feature.hooks
                   => \E i \in FeatureAt("remove", n) :
                        \A j \in FeatureAt("delete", n) : i < j

\* The remove hook of a deployed feature has thrown.
C19_Witness ==
  /\ feat.op = "remove"
  /\ feat.pc = "failed"
  /\ feat.error = "remove"
  /\ FeatureAt("remove", feat.featureName) # {}
  /\ featureRemote.objects[feat.featureName].exists

\* The feature has been deleted after its remove hook returned.
C19_WitnessDeleted ==
  /\ feat.op = "remove"
  /\ feat.pc = "done"
  /\ FeatureAt("remove", feat.featureName) # {}
  /\ FeatureAt("delete", feat.featureName) # {}
  /\ feat.start.objects[feat.featureName].exists
  /\ ~featureRemote.objects[feat.featureName].exists

\* the events about the feature n in the trace
EventsOf(n) == { i \in 1..Len(feat.trace) : feat.trace[i].feature = n }

\* the features the instance held when the operation began
RemoteNames ==
  IF feat.start.access = "ok"
  THEN { n \in FeatureNames : feat.start.objects[n].exists }
  ELSE {}

\* the update command has run to its end
Updated == feat.op = "update" /\ feat.pc = "done"

\* a feature that is local and on the instance has each step of its
\* deployment once, the beforeDeploy hook first
C20_CommonOnce ==
  Updated =>
    \A f \in features :
      f.featureName \in RemoteNames
        => /\ Cardinality(FeatureAt("merge", f.featureName)) = 1
           /\ Cardinality(FeatureAt("save", f.featureName)) = 1
           /\ "beforeDeploy" \in f.hooks
                => Cardinality(FeatureAt("beforeDeploy", f.featureName)) = 1

\* a feature that is local only has none of its hooks called
C20_LocalOnlyUntouched ==
  feat.op = "update" =>
    \A n \in LocalNames \ RemoteNames : EventsOf(n) = {}

\* a feature that is on the instance only is neither written nor deleted
C20_RemoteOnlyKept ==
  feat.op = "update" =>
    \A n \in RemoteNames \ LocalNames :
      /\ EventsOf(n) = {}
      /\ featureRemote.objects[n] = feat.start.objects[n]

\* C20: the update command runs the steps of the deployment, the
\* beforeDeploy hook first, exactly once for each feature that is in the
\* features directory and on the instance, and for no other feature: no hook
\* of a feature that is local only is called, and a feature that is on the
\* instance only is neither deployed nor removed.
C20_UpdateOnce ==
  C20_CommonOnce /\ C20_LocalOnlyUntouched /\ C20_RemoteOnlyKept

\* C21: the first read of the instance state by a run. When the remote
\* answers 403 or 404 the read returns null and the run goes on to the
\* bootstrap decision, where null means that a bootstrap is required: the
\* run starts the bootstrap when allowBootstrap is set and fails with the
\* bootstrap-required error when it is not. When the remote answers with any
\* other failure the run fails with the message of the fault, or with the
\* message of getInstanceState when the fault has none.
C21_AbsentOrError ==
  \A r \in Runs :
    run[r].pc \notin {"idle", "init"} =>
      LET answer == run[r].start.access
      IN  /\ answer \in {"forbidden", "notfound"} =>
                /\ run[r].read0 = NullState
                /\ run[r].error \notin Faults \cup
                                        {"Failed to read instance state"}
                /\ run[r].pc # "check" =>
                     IF run[r].allowBootstrap
                     THEN Happened(r, "bootstrap", NoUnit)
                     ELSE /\ run[r].pc = "failed"
                          /\ run[r].error = "bootstrap required"
          /\ answer \in Faults =>
                /\ run[r].pc = "failed"
                /\ run[r].error = IF answer = NoMessage
                                  THEN "Failed to read instance state"
                                  ELSE answer
                /\ ~Happened(r, "bootstrap", NoUnit)

\* A run whose first read was answered with 403 has started the bootstrap.
C21_Witness ==
  \E r \in Runs :
    /\ run[r].start.access = "forbidden"
    /\ run[r].read0 = NullState
    /\ run[r].pc = "boot_import"

\* A run whose first read was answered with a fault has failed with the
\* message of the fault.
C21_WitnessError ==
  \E r \in Runs :
    /\ run[r].start.access = "internal error"
    /\ run[r].pc = "failed"
    /\ run[r].error = "internal error"

\* the log file of run r was put on the instance
Logged(r) == \E i \in 1..Len(run[r].trace) : run[r].trace[i].ev = "log"

\* C22: the step that writes the run log, whether the write succeeds or
\* fails, ends the run as done with no error, and leaves the remote state,
\* the applied list included, as it was before the step.
C22_LogFailureSwallowed ==
  [][\A r \in Runs :
       (run[r].pc = "log" /\ run'[r].pc # "log") =>
         /\ run'[r].pc = "done"
         /\ run'[r].error = "none"
         /\ remote' = remote
         /\ AppliedUnits(remote'.migrations) = AppliedUnits(remote.migrations)
    ]_vars

\* A run that committed a unit is done although its log was not written.
C22_Witness ==
  \E r \in Runs :
    /\ run[r].pc = "done"
    /\ ~Logged(r)
    /\ Happened(r, "commit", UnitB)

Calls(r, e) == { i \in 1..Len(run[r].trace) : run[r].trace[i].ev = e }

\* every event named a is before every event named b
Before(r, a, b) == \A i \in Calls(r, a), j \in Calls(r, b) : i < j

\* for unit u, every event named a is before every event named b
BeforeFor(r, u, a, b) == \A i \in At(r, a, u), j \in At(r, b, u) : i < j

PerUnit == {"beforeEach", "exec", "commit", "afterEach"}

\* The order of the hooks in the trace of r: init first, beforeAll before
\* anything of the loop, for each unit beforeEach, the execution, the commit
\* and afterEach in this order and at most once each, the units one after
\* the other, afterAll after everything of the loop, and with apply no
\* afterEach for a unit whose write of the applied list is not done.
HooksInOrder(r) ==
  /\ \A e \in {"init", "beforeAll", "afterAll"} :
       Cardinality(Calls(r, e)) <= 1
  /\ \A i \in Calls(r, "init") : i = 1
  /\ \A e \in PerUnit \cup {"afterAll"} : Before(r, "beforeAll", e)
  /\ \A e \in PerUnit : Before(r, e, "afterAll")
  /\ \A j \in 1..Len(run[r].migrationsToApply) :
       LET u == run[r].migrationsToApply[j]
       IN  /\ \A e \in PerUnit : Cardinality(At(r, e, u)) <= 1
           /\ BeforeFor(r, u, "beforeEach", "exec")
           /\ BeforeFor(r, u, "beforeEach", "commit")
           /\ BeforeFor(r, u, "exec", "commit")
           /\ BeforeFor(r, u, "commit", "afterEach")
           /\ BeforeFor(r, u, "exec", "afterEach")
           /\ BeforeFor(r, u, "beforeEach", "afterEach")
           /\ (run[r].apply /\ Happened(r, "afterEach", u))
                => Happened(r, "commit", u)
           /\ \A i \in 1..(j - 1), a, b \in PerUnit :
                \A p \in At(r, a, run[r].migrationsToApply[i]),
                   q \in At(r, b, u) : p < q

\* the run has come to its end without an error
Completed(r) == run[r].pc \in {"log", "done"}

\* C25, as stated: in every run the hooks are called in the fixed order, and
\* every run that completes has called beforeAll and afterAll, each when the
\* lifecycle module has it, also when no unit is pending.
C25_HooksInEveryRun ==
  \A r \in Runs :
    /\ HooksInOrder(r)
    /\ Completed(r) =>
         \A e \in {"beforeAll", "afterAll"} \cap run[r].hooks :
           Happened(r, e, NoUnit)

\* C25, amended: in every run the hooks are called in the fixed order; every
\* run that completes has called beforeAll, and afterAll too unless it is a
\* dry run, each when the lifecycle module has it, also when no unit is
\* pending; a dry run calls none of beforeEach, afterEach and afterAll,
\* executes nothing and commits nothing.
C25_HooksUnlessDryRun ==
  \A r \in Runs :
    /\ HooksInOrder(r)
    /\ Completed(r) =>
         /\ "beforeAll" \in run[r].hooks => Happened(r, "beforeAll", NoUnit)
         /\ ("afterAll" \in run[r].hooks /\ ~run[r].dryRun)
              => Happened(r, "afterAll", NoUnit)
    /\ run[r].dryRun =>
         \A e \in PerUnit \cup {"afterAll"} : Calls(r, e) = {}

\* A run with every hook of the loop has called, for its one pending unit,
\* init, beforeAll, beforeEach, the script, the commit, afterEach and
\* afterAll.
C25_Witness ==
  \E r \in Runs :
    /\ Completed(r) /\ run[r].apply
    /\ {"init", "beforeAll", "beforeEach", "afterEach", "afterAll"}
         \subseteq run[r].hooks
    /\ \E u \in Range(run[r].migrationsToApply) :
         /\ Happened(r, "beforeEach", u) /\ Happened(r, "exec", u)
         /\ Happened(r, "commit", u) /\ Happened(r, "afterEach", u)
    /\ Happened(r, "afterAll", NoUnit)

\* A run with no pending unit has called beforeAll and afterAll.
C25_WitnessEmpty ==
  \E r \in Runs :
    /\ Completed(r) /\ run[r].migrationsToApply = <<>>
    /\ Happened(r, "beforeAll", NoUnit) /\ Happened(r, "afterAll", NoUnit)

\* the run has read the instance state and taken the bootstrap decision
Decided(r) ==
  run[r].pc \notin {"idle", "init", "check"} /\ ~ReadError(run[r].start)

\* What follows the decision that a bootstrap is required (asked) or not:
\* when required the run starts the bootstrap if allowBootstrap is set and
\* fails with the bootstrap-required error if not; when not required it
\* starts one only if forceBootstrap is set.
DecisionFollowed(r, asked) ==
  /\ (asked /\ run[r].allowBootstrap) => Happened(r, "bootstrap", NoUnit)
  /\ (asked /\ ~run[r].allowBootstrap) =>
       run[r].pc = "failed" /\ run[r].error = "bootstrap required"
  /\ (~asked /\ ~run[r].forceBootstrap) =>
       /\ ~Happened(r, "bootstrap", NoUnit)
       /\ run[r].error # "bootstrap required"

\* C26, as stated: a run whose lifecycle module has shouldBootstrap has
\* called it by the time the bootstrap decision is taken, and a bootstrap is
\* required exactly when isMigrationBootstrapRequired is true or the hook
\* returned true or threw.
C26_HookAlwaysInvoked ==
  \A r \in Runs :
    (Decided(r) /\ "shouldBootstrap" \in run[r].hooks) =>
      /\ Happened(r, "shouldBootstrap", NoUnit)
      /\ DecisionFollowed(r,
           \/ IsMigrationBootstrapRequired(run[r].clientId, run[r].read0)
           \/ run[r].shouldBootstrap \in {"true", "throw"})

\* C26, amended: the hook is called exactly when the lifecycle module has it
\* and isMigrationBootstrapRequired is false; a bootstrap is required exactly
\* when isMigrationBootstrapRequired is true or the hook returned true or
\* threw; a hook that threw leaves no error of its own in the run, and the
\* bootstrap then takes place unless allowBootstrap refuses it.
C26_HookOred ==
  \A r \in Runs :
    Decided(r) =>
      LET required ==
            IsMigrationBootstrapRequired(run[r].clientId, run[r].read0)
          called == Happened(r, "shouldBootstrap", NoUnit)
      IN  /\ called <=> ("shouldBootstrap" \in run[r].hooks /\ ~required)
          /\ called <=> run[r].shouldBootstrap \in {"true", "false", "throw"}
          /\ DecisionFollowed(r,
                required \/ run[r].shouldBootstrap \in {"true", "throw"})
          /\ run[r].shouldBootstrap = "throw" =>
                IF run[r].allowBootstrap
                THEN Happened(r, "bootstrap", NoUnit)
                ELSE run[r].error = "bootstrap required"

\* The shouldBootstrap hook of a run on an up-to-date instance threw, and
\* the run has started the bootstrap.
C26_Witness ==
  \E r \in Runs :
    /\ run[r].pc = "boot_import"
    /\ ~run[r].forceBootstrap
    /\ ~IsMigrationBootstrapRequired(run[r].clientId, run[r].read0)
    /\ run[r].shouldBootstrap = "throw"

\* C27: a run for which no bootstrap is required (neither by
\* isMigrationBootstrapRequired nor by the shouldBootstrap hook) nor forced,
\* and that has read a version above the expected one, fails with the
\* version-skew error: bootstrapMigrations and beforeAll are not called, no
\* unit is planned, touched or executed, and the remote state is as it was
\* when the run started.
C27_VersionSkewFails ==
  \A r \in Runs :
    (/\ Decided(r)
     /\ run[r].read0.present
     /\ run[r].read0.version > B2C_TOOLKIT_DATA_VERSION
     /\ ~run[r].forceBootstrap
     /\ ~IsMigrationBootstrapRequired(run[r].clientId, run[r].read0)
     /\ run[r].shouldBootstrap \notin {"true", "throw"})
    => /\ run[r].pc = "failed" /\ run[r].error = "version skew"
       /\ \A p \in 1..Len(run[r].trace) :
            run[r].trace[p].ev \in {"init", "shouldBootstrap"}
       /\ ~run[r].beforeAll.called
       /\ run[r].migrationsToApply = <<>> /\ run[r].migrationsRan = <<>>
       /\ Executed(r) = <<>>
       /\ remote = run[r].start

\* A run of a registered caller against an instance one version ahead, with
\* a unit in its directory that is not applied, has failed with the
\* version-skew error.
C27_Witness ==
  \E r \in Runs :
    /\ run[r].pc = "failed" /\ run[r].error = "version skew"
    /\ run[r].read0.version = B2C_TOOLKIT_DATA_VERSION + 1
    /\ run[r].projectMigrations = <<UnitB>>
    /\ run[r].read0.migrations = <<>>
    /\ "beforeAll" \in run[r].hooks

\* what holds of a run at Planning whose bootstrap has done its work
BootstrapTookEffect(r) ==
  /\ remote.version = B2C_TOOLKIT_DATA_VERSION
  /\ remote.clients[run[r].clientId] = B2C_TOOLKIT_DATA_VERSION
  /\ ~IsMigrationBootstrapRequired(run[r].clientId, run[r].instanceState)

\* C28: a run that is at Planning after bootstrapMigrations finds the remote
\* at the expected version with its caller registered at that version, and
\* isMigrationBootstrapRequired is false of the state it has re-read; this
\* includes that no run whose bootstrap PATCH was rejected is at Planning.
C28_PlanningAfterBootstrap ==
  \A r \in Runs :
    (run[r].pc = "plan" /\ Happened(r, "bootstrap", NoUnit))
      => BootstrapTookEffect(r)

\* C28 for the instances that accept the PATCH of the preference group.
C28_PlanningAfterAcceptedWrite ==
  \A r \in Runs :
    (run[r].pc = "plan" /\ Happened(r, "bootstrap", NoUnit)
       /\ run[r].start.access # "readonly")
      => BootstrapTookEffect(r)

\* the ids that a reader of the remote applied list finds in it
RemoteIds == Range(AppliedUnits(remote.migrations))

\* C29: with two runs whose steps interleave at every read and write of the
\* remote, no step removes an id from the remote applied list: every id a
\* reader finds before the step it finds after it.
C29_OnlyGrows ==
  [][RemoteIds \subseteq RemoteIds']_vars

\* C29 for a run whose re-read before the commit is still what the remote
\* holds when the run writes: that write removes no id.
C29_OnlyGrowsUnlessStale ==
  [][\A r \in Runs :
       (/\ run[r].pc = "commit_write" /\ run'[r].pc = "after_each"
        /\ run[r].instanceState = GetInstanceState(remote))
       => RemoteIds \subseteq RemoteIds']_vars

\* the two runs have both planned unit u, executed it and written the
\* applied list after it
BothCommitted(u) ==
  \A r \in Runs :
    /\ u \in Range(run[r].migrationsToApply)
    /\ Happened(r, "exec", u)
    /\ Happened(r, "commit", u)

\* how many times id u is in the remote applied list
Occurrences(u) ==
  Cardinality({ i \in 1..Len(AppliedUnits(remote.migrations)) :
                  AppliedUnits(remote.migrations)[i] = u })

\* C30: when both runs have found unit u pending, executed it and
\* committed it, and the later of the two commits is the last write to the
\* remote, the remote applied list holds the id of u exactly once.
C30_OnceAfterBothCommit ==
  \A r \in Runs :
    (run[r].pc = "after_each" /\ BothCommitted(Migration(r)))
      => Occurrences(Migration(r)) = 1

\* C30 for the directories without a comma in a name.
C30_OnceAfterBothCommitPlainNames ==
  PlainNames => C30_OnceAfterBothCommit

\* Both runs planned sub-directory a before either had committed it, and
\* both have executed and committed it.
C30_BothCommittedReached ==
  /\ BothCommitted(UnitA)
  /\ \A r \in Runs : run[r].planned = <<>>
  /\ \E r \in Runs : run[r].pc = "after_each" /\ Migration(r) = UnitA
  /\ Occurrences(UnitA) = 1

\* the list has no id twice
DuplicateFree(list) ==
  \A i, j \in 1..Len(list) : i # j => list[i] # list[j]

\* C31: the list that a run passes to updateInstanceMigrations has no id
\* twice and holds exactly the ids of the list re-read in the same commit
\* and of the list the run holds in memory, the unit being committed
\* included; the list in memory holds the ids read at Planning and the units
\* the run has committed, so with a remote that loses no id the written list
\* is the re-read ids, the planned ids and the committed units. This holds
\* also when the remote list has an id twice.
C31_WrittenIsUnion ==
  [][\A r \in Runs :
       /\ (run[r].pc = "commit" /\ run'[r].pc = "commit_write") =>
            LET reread == GetInstanceState(remote).migrations
                written == run'[r].instanceMigrations
            IN  /\ DuplicateFree(written)
                /\ Range(written) =
                     Range(reread) \cup Range(run[r].instanceMigrations)
                       \cup {Migration(r)}
                /\ Range(written) =
                     Range(reread) \cup Range(run[r].planned)
                       \cup Units(r, "commit") \cup {Migration(r)}
       /\ (run[r].pc = "commit_write" /\ run'[r].pc = "after_each") =>
            remote' = UpdateInstanceMigrations(remote,
                                               run[r].instanceMigrations)
    ]_vars

\* A run that planned with a list holding an id twice has written a list
\* with the id once, the id another process added, and its own unit.
C31_Witness ==
  \E r \in Runs :
    /\ run[r].pc = "after_each"
    /\ run[r].planned = <<UnitA, UnitA>>
    /\ run[r].instanceMigrations = <<UnitA, UnitC, UnitD>>
    /\ remote.migrations = Join(<<UnitA, UnitC, UnitD>>)

\* C32: a run with apply off that is no dry run never re-reads the instance
\* state after Planning and never writes the applied list: no commit is in
\* its trace, the state it holds is the one it planned with, and the remote
\* applied list is the one the run found. beforeAll is called with
\* apply = false. When the run is done every pending unit has been through
\* the loop: its body was called, or beforeEach vetoed it, or the failure to
\* call it was taken by onFailure.
C32_NoApply ==
  \A r \in Runs :
    (run[r].pc # "idle" /\ ~run[r].apply /\ ~run[r].dryRun)
    => /\ Calls(r, "commit") = {}
       /\ run[r].pc # "commit_write"
       /\ run[r].pc \in {"unit", "exec", "running", "caught", "commit",
                          "after_each", "after_all", "log", "done"}
            => run[r].instanceState.migrations = run[r].planned
       /\ remote.migrations = run[r].remote0
       /\ AppliedUnits(remote.migrations) = AppliedUnits(run[r].remote0)
       /\ run[r].beforeAll.called => ~run[r].beforeAll.apply
       /\ run[r].pc = "done" =>
            /\ run[r].migrationsRan = run[r].migrationsToApply
            /\ \A u \in Range(run[r].migrationsToApply) :
                 \/ Happened(r, "exec", u)
                 \/ Happened(r, "skip", u)
                 \/ Happened(r, "invalid", u) /\ Happened(r, "onFailure", u)

\* A run with apply off has executed its two pending units and is done.
C32_Witness ==
  \E r \in Runs :
    /\ run[r].pc = "done" /\ ~run[r].apply /\ ~run[r].dryRun
    /\ Len(run[r].migrationsToApply) = 2
    /\ \A u \in Range(run[r].migrationsToApply) : Happened(r, "executed", u)
    /\ run[r].beforeAll.called
    /\ remote.migrations = <<>>

\* the errors of a run that come from a unit
UnitErrors ==
  {"cannot load script", "not a function", "unit threw", "onFailure threw"}

\* C33: a dry run never fails with an error that comes from a pending unit,
\* whether the unit is a sub-directory, a script that exports a function, a
\* script that exports none or a script that cannot be loaded.
C33_DryRunNeverFails ==
  \A r \in Runs :
    (run[r].dryRun /\ run[r].pc = "failed") => run[r].error \notin UnitErrors

\* C33 but for the scripts that cannot be loaded: the only error of a dry
\* run that comes from a unit is the failure to load its script.
C33_DryRunFailsOnLoadOnly ==
  \A r \in Runs :
    (run[r].dryRun /\ run[r].pc = "failed" /\ run[r].error \in UnitErrors)
      => /\ run[r].error = "cannot load script"
         /\ ~\E e \in MigrationsDir(r) :
              e.name = Migration(r) /\ e.isDirectory

\* C34: the step of deployFeature that handles the questions never fails.
\* When the feature has questions and the prompt is not available (the
\* import of inquirer or the prompt throws) the variables stay the merged
\* ones; when answers are obtained the variables are the merged ones with
\* every answered key taking the value of the answer, whatever the defaults,
\* the stored variables and the variables of the caller gave it.
C34_PromptNeverFails ==
  [][(feat.pc = "prompt" /\ feat'.pc # "prompt") =>
       LET merged == feat.featureVars
           after == feat'.featureVars
           answers == feat'.prompt.answers
       IN  /\ feat'.pc = "migrations"
           /\ feat'.error = "none"
           /\ feat'.prompt.asked = feat.questions
           /\ ~feat'.prompt.available => after = merged
           /\ feat'.prompt.available =>
                /\ DOMAIN after = DOMAIN merged \cup DOMAIN answers
                /\ \A k \in DOMAIN answers : after[k] = answers[k]
                /\ \A k \in DOMAIN merged \ DOMAIN answers :
                     after[k] = merged[k]
    ]_vars

\* The answers have replaced the default of x and the y of the caller.
C34_Witness ==
  /\ feat.pc = "migrations"
  /\ feat.prompt.available
  /\ feat.vars = [y |-> "4"]
  /\ Feature.defaultVars = [x |-> "1"]
  /\ feat.featureVars = [x |-> "typed", y |-> "typed"]

\* The prompt was not available and the deployment has saved the merged
\* variables.
C34_WitnessUnavailable ==
  /\ feat.pc = "done" /\ feat.op = "deploy"
  /\ feat.prompt.asked /\ ~feat.prompt.available
  /\ feat.featureVars = [x |-> "1", y |-> "4"]

\* the steps of deployFeature that follow the questions and the prompt
AfterQuestions == {"migrations", "migrating", "cartridges", "finish", "save"}

\* the variables as merged from the state the deployment holds now
MergedFromHeld ==
  AfterPrompt(MergeVars(Feature.defaultVars,
                        StoredVars(feat.instanceState, feat.featureName),
                        feat.vars),
              feat.prompt.available, feat.prompt.answers)

\* C35: in a deployment, the steps after the questions work on the state
\* read after the questions function returned: the state given to finish is
\* the state of the instance, and the merged variables given to the
\* migrations and to finish, which are the ones saved, are merged from it.
C35_StepsUseReread ==
  (feat.op = "deploy" /\ feat.pc \in AfterQuestions) =>
     /\ feat.instanceState = GetInstanceFeatureState(featureRemote)
     /\ feat.featureVars = MergedFromHeld

\* C35, the part on the state given to finish: it is the state of the
\* instance, what the questions function wrote there included.
C35_FinishContextReread ==
  (feat.op = "deploy" /\ feat.pc \in AfterQuestions) =>
     feat.instanceState = GetInstanceFeatureState(featureRemote)

\* the questions function has written the object of the feature, and the
\* deployment has saved over it
C35_ProducerWroteAndSaved ==
  /\ feat.op = "deploy" /\ feat.pc = "done"
  /\ StoredVars(feat.instanceState, feat.featureName) = ProducerVars
  /\ feat.vars = EmptyVars
  /\ feat.featureVars = [x |-> "1"]
  /\ StoredVars(GetInstanceFeatureState(featureRemote), feat.featureName)
       = [x |-> "1"]

\* C36: deployFeature writes the object of a feature in its last step only:
\* no other step of a deployment changes the objects of the features on the
\* instance, and a deployment that fails (feature not found, beforeDeploy,
\* bootstrap, migrations, cartridges or finish) leaves them as they were
\* when it was called. The questions functions here do not write on the
\* instance themselves.
C36_SavedLastOnly ==
  [][/\ (feat.op \in {"deploy", "update"}
         /\ featureRemote'.objects # featureRemote.objects) =>
           /\ feat.pc = "save"
           /\ feat'.pc \in {"done", "update_next"}
     /\ (feat.op = "deploy" /\ feat'.pc = "failed") =>
           featureRemote'.objects = feat.start.objects
    ]_vars

\* a deployment of a stored feature has failed in finish, after a bootstrap
C36_Witness ==
  /\ feat.op = "deploy" /\ feat.pc = "failed" /\ feat.error = "finish"
  /\ IsFeatureBootstrapRequired(feat.clientId,
                                GetInstanceFeatureState(feat.start))
  /\ feat.start.objects[feat.featureName].exists
  /\ featureRemote.objects = feat.start.objects
  /\ featureRemote # feat.start

\* a deployment of a stored feature has failed in its migrations
C36_WitnessMigrations ==
  /\ feat.op = "deploy" /\ feat.pc = "failed" /\ feat.error = "migrations"
  /\ feat.start.objects[feat.featureName].exists
  /\ featureRemote.objects = feat.start.objects

\* the commit of run r writes its list
Writes(r) == run[r].pc = "commit_write" /\ run'[r].pc = "after_each"

\* what getInstanceState reads after the write is the list that was written,
\* and the unit of the commit is in it
ReadsBackWritten(r) ==
  LET st == GetInstanceState(remote')
  IN  /\ st.present
      /\ st.migrations = run[r].instanceMigrations
      /\ Migration(r) \in Range(st.migrations)

\* C37: the list a commit writes with updateInstanceMigrations is the list
\* getInstanceState returns afterwards, for every list of units of a
\* migrations directory, names with a comma included: the unit just written
\* as applied reads back as applied.
C37_RoundTrip == [][\A r \in Runs : Writes(r) => ReadsBackWritten(r)]_vars

\* C37 for directories whose unit names have no comma.
C37_RoundTripPlainNames ==
  [][\A r \in Runs : (PlainNames /\ Writes(r)) => ReadsBackWritten(r)]_vars

\* a,b.js has been committed and reads back as the two ids a and b.js
C37_CommaNameSplit ==
  \E r \in Runs :
    /\ run[r].pc = "after_each" /\ Migration(r) = UnitAB
    /\ run[r].instanceMigrations = <<UnitAB>>
    /\ AppliedUnits(remote.migrations) = <<UnitA, UnitB>>

\* the run started on an instance at the version of the archive: an earlier
\* bootstrap has imported the archive and has not made its final write
Recovering(r) == run[r].pc # "idle" /\ run[r].start.version = 0

\* the bootstrap of run r fails between the import and the final write
FailsAfterImport(r) == run[r].pc = "boot_read" /\ run'[r].pc = "failed"

BootstrapErrors == {"import failed", "onBootstrap"}

\* C38: a bootstrap that fails after the import of the archive and before
\* its final write leaves the applied list and the registered identities of
\* the instance as the run found them, and every identity finds the
\* bootstrap required afterwards; the next run asks for the bootstrap at its
\* state check, and with the bootstrap allowed it bootstraps again and gets
\* to the planning, unless the import or onBootstrap throws again.
C38_Recoverable ==
  /\ [][\A r \in Runs : FailsAfterImport(r) =>
           /\ remote'.migrations = run[r].start.migrations
           /\ remote'.clients = run[r].start.clients
           /\ \A cid \in ClientIds :
                IsMigrationBootstrapRequired(cid, GetInstanceState(remote'))
       ]_vars
  /\ [](\A r \in Runs :
          (Recovering(r) /\ run[r].pc \notin {"init", "check"}) =>
             IF run[r].allowBootstrap
             THEN Happened(r, "bootstrap", NoUnit)
             ELSE run[r].pc = "failed" /\ run[r].error = "bootstrap required")
  /\ \A r \in Runs :
       (Recovering(r) /\ run[r].pc = "boot_import")
         ~> \/ run[r].pc = "plan"
            \/ run[r].pc = "failed" /\ run[r].error \in BootstrapErrors

\* onBootstrap threw in the first run, on an instance c2 had bootstrapped
\* with a in its applied list; the second run has bootstrapped and plans
\* with that list, c2 still registered
C38_Witness ==
  /\ started = 2 /\ last.outcome = "failed"
  /\ Recovering(1) /\ run[1].pc = "plan"
  /\ "onBootstrap" \in run[1].hooks
  /\ run[1].instanceState.migrations = <<UnitA>>
  /\ run[1].instanceState.clients =
       [c1 |-> B2C_TOOLKIT_DATA_VERSION, c2 |-> B2C_TOOLKIT_DATA_VERSION]
  /\ remote.version = B2C_TOOLKIT_DATA_VERSION

\* the registry new differs from the registry old in the entry of x at most,
\* which is at the given version
OnlyEntryOf(x, version, old, new) ==
  /\ new[x] = version
  /\ \A y \in ClientIds \ {x} : new[y] = old[y]

\* C39: with one command at a time, the registries of the instance change
\* only in the final write of a bootstrap, and there only in the entry of
\* the identity that bootstraps: every other identity that was registered is
\* still registered, at the same version. This holds for bootstrapMigrations
\* and for bootstrapFeatures.
C39_OnlyOwnEntry ==
  [][/\ remote'.clients # remote.clients =>
          \E r \in Runs :
            /\ run[r].pc = "boot_write"
            /\ OnlyEntryOf(run[r].clientId, B2C_TOOLKIT_DATA_VERSION,
                           remote.clients, remote'.clients)
     /\ featureRemote'.b2cToolsFeaturesBootstrappedClientIDs
          # featureRemote.b2cToolsFeaturesBootstrappedClientIDs =>
            /\ feat.pc = "fboot_write"
            /\ OnlyEntryOf(feat.clientId, B2C_TOOLS_FEATURES_VERSION,
                  featureRemote.b2cToolsFeaturesBootstrappedClientIDs,
                  featureRemote'.b2cToolsFeaturesBootstrappedClientIDs)
    ]_vars

\* c2 has bootstrapped the migrations and the features of an instance where
\* c1 was registered for both: both identities are registered now
C39_Witness ==
  /\ Quiet /\ feat.count > 0
  /\ \E r \in Runs : run[r].pc = "done" /\ run[r].clientId = "c2"
                      /\ run[r].start.clients = Registered("c1")
  /\ remote.clients =
       [c \in ClientIds |-> B2C_TOOLKIT_DATA_VERSION]
  /\ featureRemote.b2cToolsFeaturesBootstrappedClientIDs =
       [c \in ClientIds |-> B2C_TOOLS_FEATURES_VERSION]

\* run r has not entered the bootstrap: no import, no stamp, no write of the
\* version, and the version and the registry of the instance are as the run
\* found them
NoBootstrap(r) ==
  /\ run[r].pc \notin {"boot_import", "boot_read", "boot_write",
                        "boot_reread"}
  /\ ~Happened(r, "bootstrap", NoUnit)
  /\ ~Happened(r, "onBootstrap", NoUnit)
  /\ remote.version = run[r].start.version
  /\ remote.clients = run[r].start.clients

\* C40: a run of migrateInstance with allowBootstrap false never runs the
\* bootstrap, whatever the state of the instance and whatever forceBootstrap
\* is.
C40_NeverWhenForbidden ==
  \A r \in Runs :
    (run[r].pc # "idle" /\ ~run[r].allowBootstrap) => NoBootstrap(r)

\* C40 for the runs that do not force the bootstrap.
C40_NeverWhenForbiddenUnforced ==
  \A r \in Runs :
    (run[r].pc # "idle" /\ ~run[r].allowBootstrap /\ ~run[r].forceBootstrap)
      => NoBootstrap(r)

\* a run with allowBootstrap false and forceBootstrap true has bootstrapped
\* an instance of a newer version, which is at the expected version now
C40_ForcedAndForbidden ==
  \E r \in Runs :
    /\ ~run[r].allowBootstrap /\ run[r].forceBootstrap
    /\ ~IsMigrationBootstrapRequired(run[r].clientId, run[r].read0)
    /\ run[r].pc = "plan"
    /\ Happened(r, "bootstrap", NoUnit)
    /\ run[r].start.version = B2C_TOOLKIT_DATA_VERSION + 1
    /\ remote.version = B2C_TOOLKIT_DATA_VERSION
====
